---- MODULE Spec2Model ----
(***************************************************************************)
(* The build-listing Lambda of src/lambda/index.ts as a state machine.     *)
(*                                                                         *)
(* Encoding of JavaScript values:                                          *)
(*   - a string is a sequence of one-character strings, "8A" = <<"8","A">> *)
(*     and '' = <<>>; the alphabet of the modelled strings is the decimal  *)
(*     digits, "-", ":", ",", ".", and letters;                            *)
(*   - null and undefined are the one-element sequences Null and           *)
(*     Undefined, whose element is not a character;                        *)
(*   - an optional field of an object is a field that may be missing from  *)
(*     the record's DOMAIN;                                                *)
(*   - a Map<number, string> is a function from a finite set of integers;  *)
(*   - an object key (S3 Key) is the sequence of its "/"-separated         *)
(*     segments, so '' is <<"">>;                                          *)
(*   - a Date is a number of ticks since the epoch, TicksPerMinute ticks   *)
(*     to the minute.                                                      *)
(***************************************************************************)
EXTENDS Integers, Sequences, FiniteSets, TLC

VARIABLES
    ENVIRONMENT,           \* process.env.ENVIRONMENT || 'dev', read at load
    BUCKET,                \* process.env.BUCKET_NAME, read at load
    QA_SPRINT_OVERRIDES,   \* process.env.QA_SPRINT_OVERRIDES, read per call
    bucketVersions,        \* what ListObjectVersions answers (resp.Versions)
    pc,                    \* where the handler is: the await it is parked at
    versions,              \* handler local: the sorted array
    i,                     \* handler local: the loop index (zero-based)
    latestKey,             \* handler local
    latestVersionId,       \* handler local
    qaSprintOverrides,     \* handler local: the parsed override map
    commitMessage,         \* handler local, of the current iteration
    html,                  \* the rows appended to the page so far
    skipped,               \* the builds the loop passed over with `continue`
    response,              \* what the handler returned (NoResponse before)
    calls,                 \* number of list / tagging / signing calls issued
    prev,                  \* <<the previous invocation>>, <<>> in the first
    bucketContents,        \* what ListObjectsV2 answers (resp.Contents)
    pages,                 \* the answers of a paginated ListObjectVersions
    gitTag,                \* part_001 handler local, of the current iteration
    KeyMarker,             \* part_003 handler local
    VersionIdMarker,       \* part_003 handler local
    requests               \* the markers of the list requests issued so far

vars == <<ENVIRONMENT, BUCKET, QA_SPRINT_OVERRIDES, bucketVersions, pc,
          versions, i, latestKey, latestVersionId, qaSprintOverrides,
          commitMessage, html, skipped, response, calls, prev,
          bucketContents, pages, gitTag, KeyMarker, VersionIdMarker, requests>>

(***************************************************************************)
(* Bounds of the model.                                                    *)
(***************************************************************************)
\* Largest enumeration of the detailed specification Spec.
MaxBuilds == 3
\* Largest enumeration of the QA labelling specification SpecQa.
MaxQaBuilds == 10
\* Largest override key and largest number of override entries in SpecQa.
MaxKey == 9
MaxOverrides == 3
\* Invocations of one deployment followed in SpecRerun.
MaxRuns == 2

(***************************************************************************)
(* JavaScript values.                                                      *)
(***************************************************************************)
Null == <<"null">>
Undefined == <<"undefined">>

Digits == <<"0", "1", "2", "3", "4", "5", "6", "7", "8", "9">>

IsDigit(c) == \E d \in 1..10 : Digits[d] = c

DigitVal(c) == (CHOOSE d \in 1..10 : Digits[d] = c) - 1

RECURSIVE NatToString(_)
NatToString(n) ==
    IF n < 10 THEN <<Digits[n + 1]>>
    ELSE NatToString(n \div 10) \o <<Digits[(n % 10) + 1]>>

\* String(n) of an integer n: its decimal numeral.
String(n) == IF n < 0 THEN <<"-">> \o NatToString(-n) ELSE NatToString(n)

AllDigits(s) == Len(s) > 0 /\ \A k \in 1..Len(s) : IsDigit(s[k])

RECURSIVE DigitsToNat(_)
DigitsToNat(s) ==
    IF s = <<>> THEN 0
    ELSE 10 * DigitsToNat(SubSeq(s, 1, Len(s) - 1)) + DigitVal(s[Len(s)])

\* Number(s): '' is 0, an optionally "-"-signed run of digits is its value,
\* anything else is NaN.  (No modelled string holds white space, "+", ".",
\* an exponent, a 0x/0o/0b prefix or "Infinity".)
Number(s) ==
    IF s = <<>> THEN [isNaN |-> FALSE, value |-> 0]
    ELSE IF AllDigits(s) THEN [isNaN |-> FALSE, value |-> DigitsToNat(s)]
    ELSE IF s[1] = "-" /\ AllDigits(Tail(s))
         THEN [isNaN |-> FALSE, value |-> 0 - DigitsToNat(Tail(s))]
    ELSE [isNaN |-> TRUE, value |-> 0]

isNaN(x) == x.isNaN

\* s.split(sep) for a one-character separator.
RECURSIVE split(_, _)
split(s, sep) ==
    IF \A k \in 1..Len(s) : s[k] # sep THEN <<s>>
    ELSE LET p == CHOOSE k \in 1..Len(s) :
                      s[k] = sep /\ \A j \in 1..(k - 1) : s[j] # sep
         IN  <<SubSeq(s, 1, p - 1)>> \o split(SubSeq(s, p + 1, Len(s)), sep)

\* slice(0, 10) left out: the whole string.
slice_NoTruncate(s, n) == s

\* s.slice(0, n)
slice(s, n) == SubSeq(s, 1, IF Len(s) < n THEN Len(s) ELSE n)

(***************************************************************************)
(* Maps.                                                                   *)
(***************************************************************************)
EmptyMap == [k \in {} |-> <<>>]

\* map.set that keeps the value a key already has.
MapSet_KeepFirst(m, k, v) ==
    [x \in (DOMAIN m) \cup {k} |-> IF x \in DOMAIN m THEN m[x] ELSE v]

MapSet(m, k, v) == [x \in (DOMAIN m) \cup {k} |-> IF x = k THEN v ELSE m[x]]

MapHas(m, k) == k \in DOMAIN m

MapSize(m) == Cardinality(DOMAIN m)

\* Math.max(...m.keys()) of a non-empty map
MaxOf(S) == CHOOSE x \in S : \A y \in S : y <= x

MinOf(S) == CHOOSE x \in S : \A y \in S : x <= y

(***************************************************************************)
(* src/lambda/index.ts: helpers.                                           *)
(***************************************************************************)
\* Ticks to the minute: toUTC keeps the first 16 characters of the ISO
\* form, that is the date down to the minute.
TicksPerMinute == 2

\* d ?? 0 of an optional LastModified, as getTime() reads it
TimeOf(v) == IF "LastModified" \in DOMAIN v THEN v.LastModified ELSE 0

\* v.Key ?? '' and v.VersionId ?? ''
KeyOf(v) == IF "Key" \in DOMAIN v THEN v.Key ELSE <<"">>

VersionIdOf(v) == IF "VersionId" \in DOMAIN v THEN v.VersionId ELSE <<>>

\* toUTC(d): the minute the date falls in
toUTC(v) == TimeOf(v) \div TicksPerMinute

\* baseName(key): the last "/"-separated segment
baseName(key) == key[Len(key)]

\* loadQaSprintOverrides: the forEach over raw.split(',')
RECURSIVE LoadEntries(_, _)
LoadEntries(entries, overrides) ==
    IF entries = <<>> THEN overrides
    ELSE LET parts == split(Head(entries), ":")
             num == parts[1]
             label == IF Len(parts) >= 2 THEN parts[2] ELSE Undefined
             sprintIndex == Number(num)
         IN  LoadEntries(Tail(entries),
                 IF ~isNaN(sprintIndex) /\ label # Undefined /\ label # <<>>
                 THEN MapSet(overrides, sprintIndex.value, label)
                 ELSE overrides)

loadQaSprintOverrides(raw) ==
    IF raw = Undefined \/ raw = <<>> THEN EmptyMap
    ELSE LoadEntries(split(raw, ","), EmptyMap)

\* shouldHideBaseSprint that never hides.
shouldHideBaseSprint_Never(sprintIndex, overrides) == FALSE

\* shouldHideBaseSprint looking one index too low.
shouldHideBaseSprint_TwoBelow(sprintIndex, overrides) ==
    MapHas(overrides, sprintIndex - 1)

shouldHideBaseSprint(sprintIndex, overrides) == MapHas(overrides, sprintIndex)

\* resolveQaSprintLabel with the shift applied to every index once overrides
\* exist (the `sprintIndex > highestOverride` test left out).
resolveQaSprintLabel_ShiftAll(sprintIndex, overrides) ==
    IF MapHas(overrides, sprintIndex) THEN overrides[sprintIndex]
    ELSE IF shouldHideBaseSprint(sprintIndex - 1, overrides) THEN Null
    ELSE IF MapSize(overrides) > 0
         THEN String(sprintIndex - MapSize(overrides))
    ELSE String(sprintIndex)

\* resolveQaSprintLabel with the hiding test ahead of the direct override.
resolveQaSprintLabel_HideFirst(sprintIndex, overrides) ==
    IF shouldHideBaseSprint(sprintIndex - 1, overrides) THEN Null
    ELSE IF MapHas(overrides, sprintIndex) THEN overrides[sprintIndex]
    ELSE IF MapSize(overrides) > 0
            /\ sprintIndex > MaxOf(DOMAIN overrides)
         THEN String(sprintIndex - MapSize(overrides))
    ELSE String(sprintIndex)

resolveQaSprintLabel(sprintIndex, overrides) ==
    IF MapHas(overrides, sprintIndex) THEN overrides[sprintIndex]
    ELSE IF shouldHideBaseSprint(sprintIndex - 1, overrides) THEN Null
    ELSE IF MapSize(overrides) > 0
            /\ sprintIndex > MaxOf(DOMAIN overrides)
         THEN String(sprintIndex - MapSize(overrides))
    ELSE String(sprintIndex)

\* versions.sort((a, b) => time(b) - time(a)): Array.prototype.sort is
\* stable, so builds of equal time keep the order of the enumeration.
InsertVersion(sorted, v) ==
    LET p == Cardinality({k \in 1..Len(sorted) : TimeOf(sorted[k]) >= TimeOf(v)})
    IN  SubSeq(sorted, 1, p) \o <<v>> \o SubSeq(sorted, p + 1, Len(sorted))

\* The array left in the order of the enumeration (no sort).
SortVersions_Unsorted(vs) == vs

RECURSIVE SortVersions(_)
SortVersions(vs) ==
    IF vs = <<>> THEN <<>>
    ELSE InsertVersion(SortVersions(SubSeq(vs, 1, Len(vs) - 1)), vs[Len(vs)])

\* The raw index counted from a module-level counter that outlives the
\* invocation (one more with every invocation of the deployment).
SprintIndexAt_Persistent(n, idx) ==
    n - idx + (IF prev = <<>> THEN 1 ELSE prev[1].run + 1)

\* The raw index counted from the newest build upwards.
SprintIndexAt_FromNewest(n, idx) == idx + 2

\* The raw index without the "+ 1" (versions.length - i).
SprintIndexAt_ZeroBased(n, idx) == n - idx

\* const sprintIndex = versions.length - i + 1
SprintIndexAt(n, idx) == n - idx + 1

\* `!sprintLabel`: null and '' are falsy
Falsy(s) == s = Null \/ s = Undefined \/ s = <<>>

\* expiresIn: 7 * 24 * 60 * 60
ExpiresIn == 604800

\* getSignedUrl(s3, new GetObjectCommand({Bucket, Key, VersionId}), ...)
SignedUrl(key, versionId) ==
    [Bucket |-> BUCKET, Key |-> key, VersionId |-> versionId,
     expiresIn |-> ExpiresIn]

\* The row the loop appends for versions[idx] (idx zero-based).  The fields
\* pos and sprintIndex are not on the page: they name the build the row is of.
RowOf(idx, label, message) ==
    LET v == versions[idx + 1]
        key == KeyOf(v)
        versionId == VersionIdOf(v)
    IN  [pos |-> idx,
         sprintIndex |-> SprintIndexAt(Len(versions), idx),
         fileName |-> baseName(key),
         modifiedAt |-> toUTC(v),
         isLatest |-> (key = latestKey /\ versionId = latestVersionId),
         versionLabel |->
             IF ENVIRONMENT = "qa"
             THEN [prefix |-> "Sprint: ", text |-> label]
             ELSE [prefix |-> "Version: ",
                   text |-> slice(versionId, 10) \o <<".", ".", ".">>],
         commitMessage |-> message,
         downloadUrl |-> SignedUrl(key, versionId)]

(***************************************************************************)
(* The environment: what the deployment and the bucket can be.             *)
(***************************************************************************)
AppKey == <<"builds", "app.zip">>

\* Two version ids that agree on their first ten characters, and a short one.
LongIdA == <<"3", "H", "L", "4", "k", "q", "t", "J", "l", "c", "p", "X">>
LongIdB == <<"3", "H", "L", "4", "k", "q", "t", "J", "l", "c", "Q", "z">>

VersionIds == {LongIdA, LongIdB}

\* Latest LastModified of the detailed specification, in ticks.
MaxTime == 2

\* ObjVersion: VersionId and LastModified may be absent.  (S3 names the Key
\* of every version it lists.)
Builds ==
    {[Key |-> AppKey, VersionId |-> id, LastModified |-> t] :
        id \in VersionIds, t \in 1..MaxTime}
    \cup {[Key |-> AppKey, VersionId |-> LongIdA],
          [Key |-> AppKey, LastModified |-> 1]}

Enumerations == UNION {[1..n -> Builds] : n \in 0..MaxBuilds}

\* Values of QA_SPRINT_OVERRIDES in the detailed specification.
OverrideStrings ==
    { Undefined,
      <<"2", ":", "8", "A">>,
      <<"2", ":", "8", "A", ",", "3", ":", "8", "B">>,
      <<"x", ":", "8", "A", ",", "3", ":", "9">> }

\* Values of QA_SPRINT_OVERRIDES in SpecQa: "k1:mA,k2:mB,..." for the keys
\* k1 < k2 < ... of a set, m the smallest key, as in the documented
\* "8:8A,9:8B".
Letters == <<"A", "B", "C", "D", "E", "F", "G", "H", "I", "J", "K", "L">>

RECURSIVE FormatEntries(_, _, _)
FormatEntries(keys, base, n) ==
    IF keys = {} THEN <<>>
    ELSE LET k == MinOf(keys)
             rest == keys \ {k}
             entry == String(k) \o <<":">> \o String(base) \o <<Letters[n]>>
         IN  IF rest = {} THEN entry
             ELSE entry \o <<",">> \o FormatEntries(rest, base, n + 1)

FormatOverrides(keys) ==
    IF keys = {} THEN Undefined ELSE FormatEntries(keys, MinOf(keys), 1)

QaOverrideStrings ==
    {FormatOverrides(keys) :
        keys \in {K \in SUBSET (1..MaxKey) : Cardinality(K) <= MaxOverrides}}

\* The versions of one object, as S3 lists them (newest first) or reversed.
QaBuild(j) ==
    [Key |-> AppKey, VersionId |-> <<"v">> \o String(j), LastModified |-> j]

VersionsOfOneObject(max) ==
    UNION {{[j \in 1..n |-> QaBuild(n + 1 - j)], [j \in 1..n |-> QaBuild(j)]} :
              n \in 0..max}

QaEnumerations == VersionsOfOneObject(MaxQaBuilds)

\* Longest enumeration of detailed builds given to two invocations.
MaxDevBuilds == 2

\* Builds of the oldest tick: long version ids that agree on their first ten
\* characters, an absent LastModified and an absent VersionId.
DevBuilds == {b \in Builds : TimeOf(b) <= 1}

RerunEnumerations ==
    VersionsOfOneObject(MaxBuilds)
        \cup UNION {[1..n -> DevBuilds] : n \in 1..MaxDevBuilds}

\* GetObjectTagging answers: the value of the commit-message tag, Undefined
\* when the TagSet has none.
TagValues == {Undefined, <<>>, <<"f", "i", "x">>}

NoCalls == [list |-> 0, tagging |-> 0, sign |-> 0]

NoResponse == [statusCode |-> 0, body |-> ""]

Locals0 ==
    /\ pc = "idle"
    /\ versions = <<>>
    /\ i = 0
    /\ latestKey = Undefined
    /\ latestVersionId = Undefined
    /\ qaSprintOverrides = EmptyMap
    /\ commitMessage = <<>>
    /\ html = <<>>
    /\ skipped = <<>>
    /\ response = NoResponse
    /\ calls = NoCalls
    /\ gitTag = <<>>
    /\ KeyMarker = Undefined
    /\ VersionIdMarker = Undefined
    /\ requests = <<>>

Init ==
    /\ ENVIRONMENT \in {"dev", "qa"}
    /\ BUCKET \in {"", "builds-bucket"}
    /\ QA_SPRINT_OVERRIDES \in OverrideStrings
    /\ bucketVersions \in Enumerations
    /\ Locals0
    /\ prev = <<>>
    /\ bucketContents = <<>>
    /\ pages = <<>>

InitQa ==
    /\ ENVIRONMENT = "qa"
    /\ BUCKET = "builds-bucket"
    /\ QA_SPRINT_OVERRIDES \in QaOverrideStrings
    /\ bucketVersions \in QaEnumerations
    /\ Locals0
    /\ prev = <<>>
    /\ bucketContents = <<>>
    /\ pages = <<>>

(***************************************************************************)
(* src/lambda/index.ts: handler.  One action per resumption of the async   *)
(* function: from the call, or from the settling of the promise it awaits, *)
(* to the next await, return or throw.                                     *)
(***************************************************************************)
env == <<ENVIRONMENT, BUCKET, QA_SPRINT_OVERRIDES, bucketVersions, prev,
         bucketContents, pages>>

\* Locals that only the handlers of src/unnamed have.
variantLocals == <<gitTag, KeyMarker, VersionIdMarker, requests>>

\* The head of a loop iteration, to its first await: the tagging call in
\* DEV, the signing call otherwise.
AwaitOfIteration(c) ==
    IF ENVIRONMENT = "dev"
    THEN /\ pc' = "tagging"
         /\ calls' = [c EXCEPT !.tagging = @ + 1]
    ELSE /\ pc' = "signing"
         /\ calls' = [c EXCEPT !.sign = @ + 1]

\* Invoke without the `if (!BUCKET)` test: the list call is issued anyway.
Invoke_NoBucketCheck ==
    /\ pc = "idle"
    /\ response' = response
    /\ pc' = "list"
    /\ calls' = [calls EXCEPT !.list = @ + 1]
    /\ UNCHANGED <<env, variantLocals, versions, i, latestKey, latestVersionId,
                   qaSprintOverrides, commitMessage, html, skipped>>

\* handler(), to `await s3.send(new ListObjectVersionsCommand(...))`
Invoke ==
    /\ pc = "idle"
    /\ IF BUCKET = ""
       THEN /\ response' = [statusCode |-> 500, body |-> "Configuration Error"]
            /\ pc' = "returned"
            /\ calls' = calls
       ELSE /\ response' = response
            /\ pc' = "list"
            /\ calls' = [calls EXCEPT !.list = @ + 1]
    /\ UNCHANGED <<env, variantLocals, versions, i, latestKey, latestVersionId,
                   qaSprintOverrides, commitMessage, html, skipped>>

\* ListReturns without the `versions.length === 0` test: the page of an
\* empty enumeration is the header and the footer around no row.
ListReturns_NoEmptyCheck ==
    /\ pc = "list"
    /\ IF Len(bucketVersions) = 0
       THEN /\ response' = [statusCode |-> 200, body |-> "page"]
            /\ pc' = "returned"
            /\ qaSprintOverrides' = loadQaSprintOverrides(QA_SPRINT_OVERRIDES)
            /\ UNCHANGED <<versions, latestKey, latestVersionId, calls>>
       ELSE /\ versions' = SortVersions(bucketVersions)
            /\ latestKey' = KeyOf(versions'[1])
            /\ latestVersionId' = VersionIdOf(versions'[1])
            /\ qaSprintOverrides' = loadQaSprintOverrides(QA_SPRINT_OVERRIDES)
            /\ AwaitOfIteration(calls)
            /\ response' = response
    /\ i' = 0
    /\ commitMessage' = <<>>
    /\ html' = <<>>
    /\ skipped' = <<>>
    /\ UNCHANGED <<env, variantLocals>>

\* The list call resolves: the empty page, or the sort, the latest build,
\* the overrides, the page header and the head of the first iteration.
ListReturns ==
    /\ pc = "list"
    /\ IF Len(bucketVersions) = 0
       THEN /\ response' = [statusCode |-> 200, body |-> "No files found"]
            /\ pc' = "returned"
            /\ UNCHANGED <<versions, latestKey, latestVersionId,
                           qaSprintOverrides, calls>>
       ELSE /\ versions' = SortVersions(bucketVersions)
            /\ latestKey' = KeyOf(versions'[1])
            /\ latestVersionId' = VersionIdOf(versions'[1])
            /\ qaSprintOverrides' = loadQaSprintOverrides(QA_SPRINT_OVERRIDES)
            /\ AwaitOfIteration(calls)
            /\ response' = response
    /\ i' = 0
    /\ commitMessage' = <<>>
    /\ html' = <<>>
    /\ skipped' = <<>>
    /\ UNCHANGED <<env, variantLocals>>

\* The list call rejects: the handler's promise rejects.
ListFails ==
    /\ pc = "list"
    /\ pc' = "thrown"
    /\ UNCHANGED <<env, variantLocals, versions, i, latestKey, latestVersionId,
                   qaSprintOverrides, commitMessage, html, skipped, response,
                   calls>>

\* The tagging call resolves: the commit message, then the signing call.
TaggingReturns ==
    /\ pc = "tagging"
    /\ \E value \in TagValues :
           commitMessage' = IF Falsy(value) THEN <<>> ELSE value
    /\ pc' = "signing"
    /\ calls' = [calls EXCEPT !.sign = @ + 1]
    /\ UNCHANGED <<env, variantLocals, versions, i, latestKey, latestVersionId,
                   qaSprintOverrides, html, skipped, response>>

\* TaggingFails without the try/catch: the rejection leaves the handler.
TaggingFails_Throws ==
    /\ pc = "tagging"
    /\ pc' = "thrown"
    /\ UNCHANGED <<env, variantLocals, versions, i, latestKey, latestVersionId,
                   qaSprintOverrides, commitMessage, html, skipped, response,
                   calls>>

\* The tagging call rejects: caught and logged, then the signing call.
TaggingFails ==
    /\ pc = "tagging"
    /\ pc' = "signing"
    /\ calls' = [calls EXCEPT !.sign = @ + 1]
    /\ UNCHANGED <<env, variantLocals, versions, i, latestKey, latestVersionId,
                   qaSprintOverrides, commitMessage, html, skipped, response>>

\* The signing call resolves: the label, the row or the `continue`, and
\* either the head of the next iteration or the return of the page.
SignReturns ==
    /\ pc = "signing"
    /\ LET sprintIndex == SprintIndexAt(Len(versions), i)
           sprintLabel == IF ENVIRONMENT = "qa"
                          THEN resolveQaSprintLabel(sprintIndex, qaSprintOverrides)
                          ELSE Null
       IN  IF ENVIRONMENT = "qa" /\ Falsy(sprintLabel)
           THEN /\ skipped' = Append(skipped, i)
                /\ html' = html
           ELSE /\ html' = Append(html, RowOf(i, sprintLabel, commitMessage))
                /\ skipped' = skipped
    /\ i' = i + 1
    /\ commitMessage' = <<>>
    /\ IF i + 1 < Len(versions)
       THEN /\ AwaitOfIteration(calls)
            /\ response' = response
       ELSE /\ response' = [statusCode |-> 200, body |-> "page"]
            /\ pc' = "returned"
            /\ calls' = calls
    /\ UNCHANGED <<env, variantLocals, versions, latestKey, latestVersionId,
                   qaSprintOverrides>>

\* SignFails with a retry: the signing call is issued again.
SignFails_Retries ==
    /\ pc = "signing"
    /\ pc' = "signing"
    /\ calls' = [calls EXCEPT !.sign = @ + 1]
    /\ UNCHANGED <<env, variantLocals, versions, i, latestKey, latestVersionId,
                   qaSprintOverrides, commitMessage, html, skipped, response>>

\* The signing call rejects: the handler's promise rejects.
SignFails ==
    /\ pc = "signing"
    /\ pc' = "thrown"
    /\ UNCHANGED <<env, variantLocals, versions, i, latestKey, latestVersionId,
                   qaSprintOverrides, commitMessage, html, skipped, response,
                   calls>>

Next ==
    \/ Invoke
    \/ ListReturns
    \/ ListFails
    \/ TaggingReturns
    \/ TaggingFails
    \/ SignReturns
    \/ SignFails

Spec == Init /\ [][Next]_vars

\* The QA deployment: the tagging call is never issued.
NextQa ==
    \/ Invoke
    \/ ListReturns
    \/ ListFails
    \/ SignReturns
    \/ SignFails

SpecQa == InitQa /\ [][NextQa]_vars

(***************************************************************************)
(* A deployment invoked again: ENVIRONMENT and BUCKET are read when the    *)
(* module loads and stay, QA_SPRINT_OVERRIDES is read by every invocation  *)
(* and may have been changed in between.  prev keeps the invocation that   *)
(* ended.                                                                  *)
(***************************************************************************)
InitRerun ==
    /\ ENVIRONMENT \in {"dev", "qa"}
    /\ BUCKET = "builds-bucket"
    /\ QA_SPRINT_OVERRIDES \in OverrideStrings
    /\ bucketVersions \in RerunEnumerations
    /\ Locals0
    /\ prev = <<>>
    /\ bucketContents = <<>>
    /\ pages = <<>>

RunsSoFar == IF prev = <<>> THEN 1 ELSE prev[1].run + 1

Reinvoke ==
    /\ pc \in {"returned", "thrown"}
    /\ RunsSoFar < MaxRuns
    /\ prev' = <<[run |-> RunsSoFar,
                 QA_SPRINT_OVERRIDES |-> QA_SPRINT_OVERRIDES,
                 pc |-> pc,
                 response |-> response,
                 html |-> html,
                 skipped |-> skipped]>>
    /\ QA_SPRINT_OVERRIDES' \in OverrideStrings
    /\ pc' = "idle"
    /\ versions' = <<>>
    /\ i' = 0
    /\ latestKey' = Undefined
    /\ latestVersionId' = Undefined
    /\ qaSprintOverrides' = EmptyMap
    /\ commitMessage' = <<>>
    /\ html' = <<>>
    /\ skipped' = <<>>
    /\ response' = NoResponse
    /\ calls' = NoCalls
    /\ UNCHANGED <<ENVIRONMENT, BUCKET, bucketVersions, bucketContents, pages,
                   variantLocals>>

NextRerun == Next \/ Reinvoke

SpecRerun == InitRerun /\ [][NextRerun]_vars

(***************************************************************************)
(* A deployment invoked again after the enumerator's answer changed its    *)
(* order: the same builds, listed in another sequence.                     *)
(***************************************************************************)
Reorderings(vs) ==
    {[j \in 1..Len(vs) |-> vs[p[j]]] : p \in Permutations(1..Len(vs))}

InitReorder ==
    /\ ENVIRONMENT \in {"dev", "qa"}
    /\ BUCKET = "builds-bucket"
    /\ QA_SPRINT_OVERRIDES \in OverrideStrings
    /\ bucketVersions \in Enumerations
    /\ Locals0
    /\ prev = <<>>
    /\ bucketContents = <<>>
    /\ pages = <<>>

ReinvokeReordered ==
    /\ pc \in {"returned", "thrown"}
    /\ RunsSoFar < MaxRuns
    /\ prev' = <<[run |-> RunsSoFar,
                 QA_SPRINT_OVERRIDES |-> QA_SPRINT_OVERRIDES,
                 pc |-> pc,
                 response |-> response,
                 html |-> html,
                 skipped |-> skipped]>>
    /\ bucketVersions' \in Reorderings(bucketVersions)
    /\ pc' = "idle"
    /\ versions' = <<>>
    /\ i' = 0
    /\ latestKey' = Undefined
    /\ latestVersionId' = Undefined
    /\ qaSprintOverrides' = EmptyMap
    /\ commitMessage' = <<>>
    /\ html' = <<>>
    /\ skipped' = <<>>
    /\ response' = NoResponse
    /\ calls' = NoCalls
    /\ UNCHANGED <<ENVIRONMENT, BUCKET, QA_SPRINT_OVERRIDES, bucketContents,
                   pages, variantLocals>>

NextReorder == Next \/ ReinvokeReordered

SpecReorder == InitReorder /\ [][NextReorder]_vars

(***************************************************************************)
(* The QA deployment under override strings of every shape: entries that   *)
(* are well formed, that repeat a key, that have a non-numeric or an empty *)
(* key part, an empty or a missing label part, and the empty entry.        *)
(***************************************************************************)
\* Most entries of an override string in SpecParse.
MaxEntries == 2

ParseEntries ==
    { <<"2", ":", "8", "A">>,
      <<"3", ":", "8", "B">>,
      <<"2", ":", "8", "C">>,
      <<"x", ":", "8", "A">>,
      <<":", "8", "A">>,
      <<"2", ":">>,
      <<"3">>,
      <<>> }

RECURSIVE JoinEntries(_)
JoinEntries(es) ==
    IF Len(es) = 1 THEN es[1]
    ELSE es[1] \o <<",">> \o JoinEntries(Tail(es))

ParseStrings ==
    {Undefined} \cup
    {JoinEntries(es) : es \in UNION {[1..n -> ParseEntries] : n \in 1..MaxEntries}}

InitParse ==
    /\ ENVIRONMENT = "qa"
    /\ BUCKET = "builds-bucket"
    /\ QA_SPRINT_OVERRIDES \in ParseStrings
    /\ bucketVersions \in VersionsOfOneObject(MaxBuilds)
    /\ Locals0
    /\ prev = <<>>
    /\ bucketContents = <<>>
    /\ pages = <<>>

SpecParse == InitParse /\ [][NextQa]_vars

(***************************************************************************)
(* What a page shows, read off the state.                                  *)
(***************************************************************************)
PageReturned == pc = "returned" /\ response.body = "page"

QaMode == ENVIRONMENT = "qa"

\* Loop iterations completed so far (zero-based positions, newest first).
Processed == 0..(i - 1)

Rendered(idx) == \E k \in 1..Len(html) : html[k].pos = idx

RowAt(idx) == html[CHOOSE k \in 1..Len(html) : html[k].pos = idx]

\* The sprint label the loop gave the build at position idx: the text of
\* its row, Null when the loop skipped it.
LabelGiven(idx) == IF Rendered(idx) THEN RowAt(idx).versionLabel.text ELSE Null

RawIndex(idx) == Len(versions) - idx + 1

OverrideKeys == DOMAIN qaSprintOverrides

\* Raw indices the resolver is evaluated on besides those of the page.
RawIndices == (0 - MaxKey)..(MaxQaBuilds + MaxKey)

IsDecimal(s) == AllDigits(s) \/ (Len(s) > 1 /\ s[1] = "-" /\ AllDigits(Tail(s)))

DistinctNonNumericLabels ==
    /\ \A k \in OverrideKeys : ~IsDecimal(qaSprintOverrides[k])
    /\ \A j, k \in OverrideKeys :
           j # k => qaSprintOverrides[j] # qaSprintOverrides[k]

(***************************************************************************)
(* C1: in QA mode, under an override map whose labels are pairwise         *)
(* distinct and not decimal numerals, no two rows of the page carry the    *)
(* same sprint label.                                                      *)
(***************************************************************************)
C1_NoDuplicateLabels ==
    (QaMode /\ PageReturned /\ DistinctNonNumericLabels)
        => \A a, b \in 1..Len(html) :
               a # b => html[a].versionLabel.text # html[b].versionLabel.text

(***************************************************************************)
(* C2: 10 builds in QA mode under {8: "8A", 9: "8B"}: raw indices 11..2    *)
(* newest to oldest, labelled 9 -> "8B", 8 -> "8A", 10 -> "10",            *)
(* 11 -> "11", 2..7 -> "2".."7", and the build of raw index 11 is flagged  *)
(* latest.                                                                 *)
(***************************************************************************)
C2_Overrides == (8 :> <<"8", "A">>) @@ (9 :> <<"8", "B">>)

C2_Expected(raw) ==
    IF raw = 9 THEN <<"8", "B">>
    ELSE IF raw = 8 THEN <<"8", "A">>
    ELSE String(raw)

C2_ExampleTable ==
    (QaMode /\ PageReturned /\ Len(versions) = 10
            /\ qaSprintOverrides = C2_Overrides)
        => /\ \A idx \in 0..9 :
                  /\ Rendered(idx)
                  /\ RowAt(idx).sprintIndex = 11 - idx
                  /\ LabelGiven(idx) = C2_Expected(11 - idx)
           /\ Rendered(0) /\ RowAt(0).isLatest

(***************************************************************************)
(* C3: under a non-empty override map, a raw index greater than every      *)
(* override key is labelled with the decimal numeral of                    *)
(* (raw index - (number of override keys - 1)).                            *)
(***************************************************************************)
C3_ShiftAboveOverrides ==
    (QaMode /\ OverrideKeys # {})
        => \A idx \in Processed :
               (\A k \in OverrideKeys : RawIndex(idx) > k)
                   => LabelGiven(idx) =
                          String(RawIndex(idx) - (MapSize(qaSprintOverrides) - 1))

(***************************************************************************)
(* C4: in QA mode with an empty override map the page has a row for each   *)
(* of the N builds, the row at newest-first position p labelled with the   *)
(* decimal numeral of N - p + 1; the labels strictly increase from the     *)
(* oldest to the newest build and none repeats.                            *)
(***************************************************************************)
C4_EmptyOverridesRawLabels ==
    (QaMode /\ PageReturned /\ OverrideKeys = {})
        => /\ Len(html) = Len(bucketVersions)
           /\ \A k \in 1..Len(html) :
                  /\ html[k].pos = k - 1
                  /\ html[k].versionLabel.text
                         = String(Len(bucketVersions) - (k - 1) + 1)
           /\ \A k \in 1..(Len(html) - 1) :
                  /\ ~isNaN(Number(html[k].versionLabel.text))
                  /\ Number(html[k].versionLabel.text).value
                         > Number(html[k + 1].versionLabel.text).value
           /\ \A a, b \in 1..Len(html) :
                  a # b => html[a].versionLabel.text # html[b].versionLabel.text

\* A page of ten or more rows (labels of one and of two digits) under no
\* override.
C4_Witness ==
    /\ QaMode /\ PageReturned /\ OverrideKeys = {}
    /\ Len(html) >= 10

(***************************************************************************)
(* C5: under an override map of two or more keys, a raw index strictly     *)
(* between the smallest and the largest key that is not itself a key is    *)
(* never labelled with its own unchanged numeral.                          *)
(***************************************************************************)
C5_NoUnshiftedInsideRange ==
    (QaMode /\ Cardinality(OverrideKeys) >= 2)
        => \A idx \in Processed :
               ( /\ RawIndex(idx) \notin OverrideKeys
                 /\ RawIndex(idx) > MinOf(OverrideKeys)
                 /\ RawIndex(idx) < MaxOf(OverrideKeys) )
                   => LabelGiven(idx) # String(RawIndex(idx))

(***************************************************************************)
(* C6: under a non-empty override map, a raw index smaller than every      *)
(* override key is labelled with its own decimal numeral, and its build    *)
(* is rendered.                                                            *)
(***************************************************************************)
C6_BelowOverridesUnchanged ==
    (QaMode /\ OverrideKeys # {})
        => /\ \A idx \in Processed :
                  (\A k \in OverrideKeys : RawIndex(idx) < k)
                      => /\ Rendered(idx)
                         /\ LabelGiven(idx) = String(RawIndex(idx))
           /\ \A s \in RawIndices :
                  (\A k \in OverrideKeys : s < k)
                      => resolveQaSprintLabel(s, qaSprintOverrides) = String(s)

\* A finished page that holds a build below two override keys.
C6_Witness ==
    /\ QaMode /\ PageReturned /\ Cardinality(OverrideKeys) >= 2
    /\ \E idx \in Processed :
           /\ \A k \in OverrideKeys : RawIndex(idx) < k
           /\ Rendered(idx)

(***************************************************************************)
(* C7: a raw index that is a key of the override map is labelled with      *)
(* exactly the mapped label, whatever the other keys are.                  *)
(***************************************************************************)
C7_DirectOverrideVerbatim ==
    QaMode
        => /\ \A idx \in Processed :
                  RawIndex(idx) \in OverrideKeys
                      => LabelGiven(idx) = qaSprintOverrides[RawIndex(idx)]
           /\ \A s \in OverrideKeys :
                  resolveQaSprintLabel(s, qaSprintOverrides) = qaSprintOverrides[s]

\* A finished page with a build whose raw index and the raw index below it
\* are both keys (the hiding test would apply to it), and one more key.
C7_Witness ==
    /\ QaMode /\ PageReturned /\ Cardinality(OverrideKeys) >= 3
    /\ \E idx \in Processed :
           /\ RawIndex(idx) \in OverrideKeys
           /\ RawIndex(idx) - 1 \in OverrideKeys
           /\ LabelGiven(idx) = qaSprintOverrides[RawIndex(idx)]

(***************************************************************************)
(* C8: the page holds exactly one row for every enumerated build, in       *)
(* either mode and under every override map.                               *)
(***************************************************************************)
C8_OneRowPerBuild ==
    PageReturned
        => /\ Len(html) = Len(bucketVersions)
           /\ \A idx \in 0..(Len(bucketVersions) - 1) :
                  Cardinality({k \in 1..Len(html) : html[k].pos = idx}) = 1

(***************************************************************************)
(* C9: for an enumeration of pairwise distinct (Key, VersionId), exactly   *)
(* one row carries the LATEST flag and its build has the greatest          *)
(* LastModified (absent counted as 0); for an empty enumeration no row     *)
(* carries it.                                                             *)
(***************************************************************************)
DistinctIdentities ==
    \A a, b \in 1..Len(bucketVersions) :
        a # b => <<KeyOf(bucketVersions[a]), VersionIdOf(bucketVersions[a])>>
                     # <<KeyOf(bucketVersions[b]), VersionIdOf(bucketVersions[b])>>

LatestRows == {k \in 1..Len(html) : html[k].isLatest}

C9_ExactlyOneLatest ==
    /\ (PageReturned /\ DistinctIdentities)
           => /\ Cardinality(LatestRows) = 1
              /\ \A k \in LatestRows : \A b \in 1..Len(versions) :
                     TimeOf(versions[html[k].pos + 1]) >= TimeOf(versions[b])
    /\ (pc = "returned" /\ Len(bucketVersions) = 0) => LatestRows = {}

(***************************************************************************)
(* C10: two invocations on the same enumeration and mode that differ only  *)
(* in QA_SPRINT_OVERRIDES show the same set of builds with the LATEST      *)
(* flag.                                                                   *)
(***************************************************************************)
LatestBuilds(rows) ==
    {<<rows[k].downloadUrl.Key, rows[k].downloadUrl.VersionId>> :
        k \in {j \in 1..Len(rows) : rows[j].isLatest}}

C10_LatestIndependentOfOverrides ==
    (prev # <<>> /\ prev[1].pc = "returned" /\ pc = "returned")
        => LatestBuilds(prev[1].html) = LatestBuilds(html)

(***************************************************************************)
(* C11: two enumerator answers that hold the same builds in a different    *)
(* sequence (builds of equal LastModified included) give the same row      *)
(* order, the same label for every build and the same LATEST build.        *)
(***************************************************************************)
\* What a page shows of its builds, row by row: identity, label, flag.
Shown(rows) ==
    [k \in 1..Len(rows) |->
        [Key |-> rows[k].downloadUrl.Key,
         VersionId |-> rows[k].downloadUrl.VersionId,
         modifiedAt |-> rows[k].modifiedAt,
         label |-> rows[k].versionLabel.text,
         isLatest |-> rows[k].isLatest]]

BothPagesReturned ==
    /\ prev # <<>>
    /\ prev[1].pc = "returned" /\ prev[1].response.body = "page"
    /\ PageReturned

C11_OrderOfEnumerationIrrelevant ==
    BothPagesReturned => Shown(prev[1].html) = Shown(html)

(***************************************************************************)
(* C12: resolving twice gives the same result: resolving a label leaves    *)
(* the override map as it was, and two invocations on the same ordered     *)
(* enumeration, mode and override string return the same labels and the    *)
(* same latest flags.                                                      *)
(***************************************************************************)
LabelsAndFlags(rows) ==
    [k \in 1..Len(rows) |->
        [pos |-> rows[k].pos,
         label |-> rows[k].versionLabel.text,
         isLatest |-> rows[k].isLatest]]

C12_SameInputsSamePage ==
    (BothPagesReturned /\ prev[1].QA_SPRINT_OVERRIDES = QA_SPRINT_OVERRIDES)
        => /\ LabelsAndFlags(prev[1].html) = LabelsAndFlags(html)
           /\ prev[1].skipped = skipped

C12_ResolvingKeepsOverrides ==
    pc = "signing"
        => /\ qaSprintOverrides' = qaSprintOverrides
           /\ QA_SPRINT_OVERRIDES' = QA_SPRINT_OVERRIDES

C12_Idempotent ==
    /\ []C12_SameInputsSamePage
    /\ [][C12_ResolvingKeepsOverrides]_vars

\* A second QA page under the same two overrides, over three builds.
C12_Witness ==
    /\ BothPagesReturned /\ QaMode
    /\ prev[1].QA_SPRINT_OVERRIDES = QA_SPRINT_OVERRIDES
    /\ Cardinality(OverrideKeys) >= 2
    /\ Len(versions) >= 3
    /\ Len(html) >= 2

(***************************************************************************)
(* C13: loadQaSprintOverrides adds no entry for a comma-separated entry    *)
(* whose key part is not numeric (a letter, or empty) or whose label part  *)
(* is empty, and stores every well-formed index:label entry: the map is    *)
(* the one of the string without its malformed entries.                    *)
(***************************************************************************)
\* The entry up to its first ":", and what follows up to the next ":".
ColonsOf(e) == {k \in 1..Len(e) : e[k] = ":"}

KeyPart(e) == IF ColonsOf(e) = {} THEN e ELSE SubSeq(e, 1, MinOf(ColonsOf(e)) - 1)

AfterKey(e) ==
    IF ColonsOf(e) = {} THEN <<>> ELSE SubSeq(e, MinOf(ColonsOf(e)) + 1, Len(e))

LabelPart(e) == KeyPart(AfterKey(e))

WellFormed(e) == IsDecimal(KeyPart(e)) /\ LabelPart(e) # <<>>

\* The integer a numeral stands for.
NumeralValue(s) ==
    CHOOSE n \in (0 - MaxQaBuilds - MaxKey)..(MaxQaBuilds + MaxKey) : String(n) = s

\* The map of the well-formed entries, the last entry of a key giving its
\* label.
WellFormedAt(raw) ==
    IF raw = Undefined \/ raw = <<>> THEN {}
    ELSE {k \in 1..Len(split(raw, ",")) : WellFormed(split(raw, ",")[k])}

MapOfWellFormed(raw) ==
    LET es == split(raw, ",")
        at == WellFormedAt(raw)
        keyAt(k) == NumeralValue(KeyPart(es[k]))
    IN  [n \in {keyAt(k) : k \in at} |->
            LabelPart(es[MaxOf({k \in at : keyAt(k) = n})])]

OverridesLoaded == Len(versions) > 0

C13_MalformedEntriesDropped ==
    OverridesLoaded => qaSprintOverrides = MapOfWellFormed(QA_SPRINT_OVERRIDES)

(***************************************************************************)
(* C14: with BUCKET_NAME not set the handler returns status 500 with the   *)
(* diagnostic body, issues no list, tagging or signing call and renders    *)
(* no row.                                                                 *)
(***************************************************************************)
C14_NoBucketFailsFast ==
    BUCKET = ""
        => /\ pc \in {"idle", "returned"}
           /\ calls = NoCalls
           /\ html = <<>>
           /\ pc = "returned"
                  => response = [statusCode |-> 500, body |-> "Configuration Error"]

\* The handler has returned without a bucket name, over a bucket that holds
\* builds.
C14_Witness ==
    /\ BUCKET = "" /\ pc = "returned"
    /\ Len(bucketVersions) > 0

(***************************************************************************)
(* C15: when the enumerator answers no build the handler returns status    *)
(* 200 with the "No files found" body, in either mode and under any        *)
(* override string, without a tagging or a signing call.                   *)
(***************************************************************************)
C15_EmptyEnumerationNoFilesFound ==
    (BUCKET # "" /\ Len(bucketVersions) = 0)
        => /\ pc \in {"idle", "list", "returned", "thrown"}
           /\ calls.tagging = 0 /\ calls.sign = 0
           /\ html = <<>>
           /\ pc = "returned"
                  => response = [statusCode |-> 200, body |-> "No files found"]

\* The empty page returned by the QA deployment under an override string.
C15_Witness ==
    /\ BUCKET # "" /\ Len(bucketVersions) = 0 /\ pc = "returned"
    /\ QaMode /\ QA_SPRINT_OVERRIDES # Undefined

(***************************************************************************)
(* C16: in DEV mode, whichever tag fetches fail, the handler returns       *)
(* status 200 with one row per build in sort order; a build whose fetch    *)
(* failed is rendered without a commit message and a build whose fetch     *)
(* succeeded shows its own commit-message tag value.                       *)
(***************************************************************************)
DevMode == ENVIRONMENT = "dev"

\* The finished DEV page: a row for every position of the sorted array, in
\* order, each of the build at that position.
C16_DevPageComplete ==
    (DevMode /\ pc = "returned" /\ BUCKET # "" /\ Len(bucketVersions) > 0)
        => /\ response = [statusCode |-> 200, body |-> "page"]
           /\ Len(html) = Len(bucketVersions)
           /\ \A k \in 1..Len(html) :
                  /\ html[k].pos = k - 1
                  /\ html[k].downloadUrl.Key = KeyOf(versions[k])
                  /\ html[k].downloadUrl.VersionId = VersionIdOf(versions[k])

\* No message is carried over from the build before.
C16_FreshMessage == pc = "tagging" => commitMessage = <<>>

\* A tag fetch, failed or not, is followed by the signing call; a failed one
\* leaves the message empty, a successful one sets it to the tag value ('' if
\* the TagSet has none); the row appended next shows the message of its own
\* iteration.
C16_TagStep ==
    /\ pc = "tagging" => pc' = "signing"
    /\ TaggingFails => commitMessage' = <<>>
    /\ TaggingReturns => commitMessage' \in {<<>>} \cup (TagValues \ {Undefined})
    /\ (DevMode /\ pc = "signing" /\ pc' # "thrown")
           => /\ Len(html') = Len(html) + 1
              /\ html'[Len(html')].pos = i
              /\ html'[Len(html')].commitMessage = commitMessage

C16_TagFailuresTolerated ==
    /\ [](C16_DevPageComplete /\ C16_FreshMessage)
    /\ [][C16_TagStep]_vars

\* A finished DEV page that shows a commit message on one row and none on
\* another.
C16_Witness ==
    /\ DevMode /\ PageReturned
    /\ \E a, b \in 1..Len(html) :
           html[a].commitMessage = <<>> /\ html[b].commitMessage # <<>>

(***************************************************************************)
(* C17: the list call is issued at most once per invocation and the        *)
(* signing call at most once per build; when the list call or a signing    *)
(* call fails the handler ends in failure, returning no page, and the      *)
(* failed call is not repeated.                                            *)
(***************************************************************************)
C17_CallCounts ==
    /\ calls.list <= 1
    /\ calls.sign <= Len(versions)
    /\ calls.sign <= i + 1
    /\ pc = "thrown" => response = NoResponse

C17_FailureStep ==
    /\ (ListFails \/ SignFails)
           => /\ pc' = "thrown"
              /\ calls' = calls
              /\ response' = NoResponse
    /\ pc = "thrown" => (pc' = "thrown" /\ calls' = calls)

C17_FailuresPropagateNoRetry ==
    /\ []C17_CallCounts
    /\ [][C17_FailureStep]_vars

\* The signing call of the second build failed after a row was appended.
C17_Witness ==
    /\ pc = "thrown"
    /\ calls.sign = 2 /\ i = 1
    /\ Len(html) = 1

(***************************************************************************)
(* C18: the rows of the page are in non-increasing LastModified order      *)
(* (absent LastModified counted as 0), whatever the order of the           *)
(* enumerator's answer and whatever the tag fetcher and the signer do.     *)
(***************************************************************************)
Occurrences(vs, v) == Cardinality({k \in 1..Len(vs) : vs[k] = v})

\* The build a row is of: the one at its position in the sorted array,
\* which holds the enumerated builds, each as often as enumerated.
RowBuild(k) == versions[html[k].pos + 1]

C18_RowsNewestFirst ==
    /\ Len(versions) > 0
           => \A k \in 1..Len(bucketVersions) :
                  Occurrences(versions, bucketVersions[k])
                      = Occurrences(bucketVersions, bucketVersions[k])
    /\ \A k \in 1..Len(html) :
           /\ html[k].downloadUrl.Key = KeyOf(RowBuild(k))
           /\ html[k].downloadUrl.VersionId = VersionIdOf(RowBuild(k))
           /\ html[k].modifiedAt = TimeOf(RowBuild(k)) \div TicksPerMinute
    /\ \A a, b \in 1..Len(html) :
           a < b => /\ TimeOf(RowBuild(a)) >= TimeOf(RowBuild(b))
                    /\ html[a].modifiedAt >= html[b].modifiedAt

\* A finished page of three rows over an answer that was not in order and
\* that holds a build without LastModified.
C18_Witness ==
    /\ PageReturned /\ Len(html) = 3
    /\ \E a, b \in 1..Len(bucketVersions) :
           a < b /\ TimeOf(bucketVersions[a]) < TimeOf(bucketVersions[b])
    /\ \E k \in 1..Len(bucketVersions) :
           "LastModified" \notin DOMAIN bucketVersions[k]

(***************************************************************************)
(* C19: the build at zero-based newest-first position i of N builds gets   *)
(* raw sprint index N - i + 1: the newest N + 1, the oldest 2, and the     *)
(* raw indices are distinct consecutive integers that decrease by one      *)
(* with each position.                                                     *)
(***************************************************************************)
C19_RawSprintIndex ==
    LET N == Len(bucketVersions) IN
    /\ \A k \in 1..Len(html) :
           /\ html[k].pos \in 0..(N - 1)
           /\ html[k].sprintIndex = N - html[k].pos + 1
           /\ html[k].sprintIndex \in 2..(N + 1)
           /\ html[k].pos = 0 => html[k].sprintIndex = N + 1
           /\ html[k].pos = N - 1 => html[k].sprintIndex = 2
    /\ \A a, b \in 1..Len(html) :
           /\ a # b => html[a].sprintIndex # html[b].sprintIndex
           /\ html[a].pos < html[b].pos
                  => html[a].sprintIndex - html[b].sprintIndex
                         = html[b].pos - html[a].pos

\* A finished QA page over ten builds, under an override, that shows the
\* newest and the oldest build.
C19_Witness ==
    /\ QaMode /\ PageReturned /\ OverrideKeys # {}
    /\ Len(bucketVersions) = MaxQaBuilds
    /\ Rendered(0) /\ Rendered(MaxQaBuilds - 1)
    /\ RowAt(0).sprintIndex = MaxQaBuilds + 1
    /\ RowAt(MaxQaBuilds - 1).sprintIndex = 2

(***************************************************************************)
(* C20: in DEV mode the label of every row is the first ten characters of  *)
(* the build's VersionId followed by "...", no build is hidden and the     *)
(* override string has no effect: two DEV invocations on the same          *)
(* enumeration under any two override strings return the same page (up to  *)
(* what the tag fetcher answered), and a build without VersionId gets the  *)
(* empty identifier.                                                       *)
(***************************************************************************)
FirstTen(s) == [k \in 1..(IF Len(s) < 10 THEN Len(s) ELSE 10) |-> s[k]]

WithoutMessage(rows) ==
    [k \in 1..Len(rows) |-> [f \in DOMAIN rows[k] \ {"commitMessage"} |-> rows[k][f]]]

C20_DevLabelFromVersionIdOnly ==
    DevMode
        => /\ skipped = <<>>
           /\ \A k \in 1..Len(html) :
                  LET v == versions[html[k].pos + 1] IN
                  /\ html[k].pos = k - 1
                  /\ html[k].versionLabel.prefix = "Version: "
                  /\ Len(html[k].versionLabel.text) <= 13
                  /\ "VersionId" \in DOMAIN v
                         => html[k].versionLabel.text
                                = FirstTen(v.VersionId) \o <<".", ".", ".">>
                  /\ "VersionId" \notin DOMAIN v
                         => html[k].versionLabel.text = <<".", ".", ".">>
           /\ PageReturned => Len(html) = Len(bucketVersions)
           /\ BothPagesReturned
                  => WithoutMessage(prev[1].html) = WithoutMessage(html)

\* A second DEV page under another override string, with a row of a
\* twelve-character VersionId and a row of a build without VersionId.
C20_Witness ==
    /\ DevMode /\ BothPagesReturned
    /\ prev[1].QA_SPRINT_OVERRIDES # QA_SPRINT_OVERRIDES
    /\ QA_SPRINT_OVERRIDES # Undefined
    /\ \E k \in 1..Len(html) :
           /\ Len(html[k].downloadUrl.VersionId) = 12
           /\ Len(html[k].versionLabel.text) = 13
    /\ \E k \in 1..Len(html) :
           /\ "VersionId" \notin DOMAIN versions[html[k].pos + 1]
           /\ html[k].versionLabel.text = <<".", ".", ".">>

(***************************************************************************)
(* C23: in QA mode, under a non-empty override map with positive integer   *)
(* keys and non-numeric labels, no row carries the smallest override key   *)
(* as its label: the number of the split sprint is never shown plain.      *)
(***************************************************************************)
C23_BaseSprintNumberNeverShown ==
    (QaMode /\ OverridesLoaded /\ OverrideKeys # {})
        => \A k \in 1..Len(html) :
               html[k].versionLabel.text # String(MinOf(OverrideKeys))

\* A finished page over ten builds under 8:8A,9:8B, where the build of raw
\* index 10 (which would read "8") is not shown.
C23_Witness ==
    /\ QaMode /\ PageReturned
    /\ OverrideKeys = {8, 9}
    /\ Len(bucketVersions) = 10
    /\ skipped = <<1>>
    /\ Len(html) = 9

(***************************************************************************)
(* C24: in QA mode a build is left out of the page exactly when its raw    *)
(* index is no override key and the raw index below it is one; every other *)
(* build has its row, and a build that is left out has been given to the   *)
(* signer first.                                                           *)
(***************************************************************************)
Omitted(idx) == \E k \in 1..Len(skipped) : skipped[k] = idx

C24_OmittedIffBaseOfSplit ==
    QaMode
        => /\ \A idx \in Processed :
                  /\ Omitted(idx) <=> (/\ RawIndex(idx) \notin OverrideKeys
                                       /\ RawIndex(idx) - 1 \in OverrideKeys)
                  /\ Rendered(idx) <=> ~Omitted(idx)
           /\ Len(html) + Len(skipped) = i
           /\ calls.sign >= i
           /\ pc = "signing" => calls.sign = i + 1

\* A finished page that leaves out two builds, each after its signing call.
C24_Witness ==
    /\ QaMode /\ PageReturned
    /\ Len(skipped) = 2
    /\ calls.sign = Len(bucketVersions)
    /\ \E idx \in Processed : RawIndex(idx) \in OverrideKeys /\ Rendered(idx)

(***************************************************************************)
(* C30: the map loadQaSprintOverrides returns has one label per key and no *)
(* more entries than the string has comma-separated entries; of several    *)
(* accepted entries with one key, the last in the string gives the label.  *)
(***************************************************************************)
CommaSeparated(raw) == IF raw = Undefined THEN <<>> ELSE split(raw, ",")

\* The entries loadQaSprintOverrides stores: a key part that Number reads
\* (the empty one as 0) and a non-empty label part.
Accepted(e) ==
    /\ KeyPart(e) = <<>> \/ IsDecimal(KeyPart(e))
    /\ LabelPart(e) # <<>>

KeyRead(e) == IF KeyPart(e) = <<>> THEN 0 ELSE NumeralValue(KeyPart(e))

C30_OneLabelPerKeyLastWins ==
    OverridesLoaded
        => LET es == CommaSeparated(QA_SPRINT_OVERRIDES)
               commas == {k \in 1..Len(QA_SPRINT_OVERRIDES) :
                              QA_SPRINT_OVERRIDES[k] = ","}
           IN  /\ QA_SPRINT_OVERRIDES # Undefined
                      => Len(es) = Cardinality(commas) + 1
               /\ MapSize(qaSprintOverrides) <= Len(es)
               /\ \A n \in DOMAIN qaSprintOverrides :
                      \E k \in 1..Len(es) :
                          /\ Accepted(es[k]) /\ KeyRead(es[k]) = n
                          /\ qaSprintOverrides[n] = LabelPart(es[k])
                          /\ \A j \in (k + 1)..Len(es) :
                                 ~(Accepted(es[j]) /\ KeyRead(es[j]) = n)
               /\ \A k \in 1..Len(es) :
                      Accepted(es[k]) => KeyRead(es[k]) \in DOMAIN qaSprintOverrides

\* Two accepted entries of key 2: the map holds the label of the second.
C30_Witness ==
    /\ OverridesLoaded
    /\ QA_SPRINT_OVERRIDES = <<"2", ":", "8", "A", ",", "2", ":", "8", "C">>
    /\ DOMAIN qaSprintOverrides = {2}
    /\ qaSprintOverrides[2] = <<"8", "C">>

(***************************************************************************)
(* src/unnamed/part_000: the handler whose raw index is N - i and whose    *)
(* resolver shifts by the number of override keys below the index.  Its    *)
(* helpers toUTC, baseName and loadQaSprintOverrides read as those of      *)
(* src/lambda/index.ts.                                                    *)
(***************************************************************************)
\* resolveQaSprintLabel with the shift of every override key, below the
\* index or not.
resolveQaSprintLabel_part000_AllKeys(sprintIndex, overrides) ==
    IF MapHas(overrides, sprintIndex) THEN overrides[sprintIndex]
    ELSE String(sprintIndex - MapSize(overrides))

\* resolveQaSprintLabel: the direct override, else the index less the
\* number of keys k with sprintIndex > k.
resolveQaSprintLabel_part000(sprintIndex, overrides) ==
    IF MapHas(overrides, sprintIndex) THEN overrides[sprintIndex]
    ELSE String(sprintIndex
                  - Cardinality({k \in DOMAIN overrides : sprintIndex > k}))

\* const sprintIndex = versions.length - i
SprintIndexAt_part000(n, idx) == n - idx

\* The row a handler of src/unnamed appends for versions[idx], with the
\* fields of RowOf; urlVersionId is the VersionId given to the signer.
VariantRow(idx, sprintIndex, prefix, text, message, urlVersionId) ==
    LET v == versions[idx + 1] IN
    [pos |-> idx,
     sprintIndex |-> sprintIndex,
     fileName |-> baseName(KeyOf(v)),
     modifiedAt |-> toUTC(v),
     isLatest |-> (KeyOf(v) = latestKey /\ VersionIdOf(v) = latestVersionId),
     versionLabel |-> [prefix |-> prefix, text |-> text],
     commitMessage |-> message,
     downloadUrl |-> SignedUrl(KeyOf(v), urlVersionId)]

\* The head of an iteration to its first await: the tagging call in DEV for
\* a build with a VersionId, the signing call otherwise.
AwaitOfIteration_part000(c, idx, vs) ==
    IF ENVIRONMENT = "dev" /\ VersionIdOf(vs[idx + 1]) # <<>>
    THEN /\ pc' = "tagging"
         /\ calls' = [c EXCEPT !.tagging = @ + 1]
    ELSE /\ pc' = "signing"
         /\ calls' = [c EXCEPT !.sign = @ + 1]

Invoke_part000 ==
    /\ pc = "idle"
    /\ IF BUCKET = ""
       THEN /\ response' = [statusCode |-> 500, body |-> "BUCKET_NAME not set"]
            /\ pc' = "returned"
            /\ calls' = calls
       ELSE /\ response' = response
            /\ pc' = "list"
            /\ calls' = [calls EXCEPT !.list = @ + 1]
    /\ UNCHANGED <<env, variantLocals, versions, i, latestKey, latestVersionId,
                   qaSprintOverrides, commitMessage, html, skipped>>

ListReturns_part000 ==
    /\ pc = "list"
    /\ IF Len(bucketVersions) = 0
       THEN /\ response' = [statusCode |-> 200, body |-> "No files found"]
            /\ pc' = "returned"
            /\ UNCHANGED <<versions, latestKey, latestVersionId,
                           qaSprintOverrides, calls>>
       ELSE /\ versions' = SortVersions(bucketVersions)
            /\ latestKey' = KeyOf(versions'[1])
            /\ latestVersionId' = VersionIdOf(versions'[1])
            /\ qaSprintOverrides' = loadQaSprintOverrides(QA_SPRINT_OVERRIDES)
            /\ AwaitOfIteration_part000(calls, 0, versions')
            /\ response' = response
    /\ i' = 0
    /\ commitMessage' = <<>>
    /\ html' = <<>>
    /\ skipped' = <<>>
    /\ UNCHANGED <<env, variantLocals>>

ListFails_part000 ==
    /\ pc = "list"
    /\ pc' = "thrown"
    /\ UNCHANGED <<env, variantLocals, versions, i, latestKey, latestVersionId,
                   qaSprintOverrides, commitMessage, html, skipped, response,
                   calls>>

\* The signing call resolves: the row, then the next iteration or the page.
SignReturns_part000 ==
    /\ pc = "signing"
    /\ LET sprintIndex == SprintIndexAt_part000(Len(versions), i)
           versionId == VersionIdOf(versions[i + 1])
       IN  html' = Append(html,
               IF ENVIRONMENT = "qa"
               THEN VariantRow(i, sprintIndex, "Sprint: ",
                        resolveQaSprintLabel_part000(sprintIndex,
                                                     qaSprintOverrides),
                        commitMessage,
                        IF versionId = <<>> THEN Undefined ELSE versionId)
               ELSE VariantRow(i, sprintIndex, "Version: ",
                        slice(versionId, 10), commitMessage,
                        IF versionId = <<>> THEN Undefined ELSE versionId))
    /\ i' = i + 1
    /\ commitMessage' = <<>>
    /\ IF i + 1 < Len(versions)
       THEN /\ AwaitOfIteration_part000(calls, i + 1, versions)
            /\ response' = response
       ELSE /\ response' = [statusCode |-> 200, body |-> "page"]
            /\ pc' = "returned"
            /\ calls' = calls
    /\ UNCHANGED <<env, variantLocals, versions, latestKey, latestVersionId,
                   qaSprintOverrides, skipped>>

SignFails_part000 ==
    /\ pc = "signing"
    /\ pc' = "thrown"
    /\ UNCHANGED <<env, variantLocals, versions, i, latestKey, latestVersionId,
                   qaSprintOverrides, commitMessage, html, skipped, response,
                   calls>>

\* The QA deployment of part_000: the tagging call is never issued.
Next_part000 ==
    \/ Invoke_part000
    \/ ListReturns_part000
    \/ ListFails_part000
    \/ SignReturns_part000
    \/ SignFails_part000

Spec_part000 == InitQa /\ [][Next_part000]_vars

(***************************************************************************)
(* C28: in QA mode of the part_000 handler, for every N and every override *)
(* map with positive integer keys, the labels of the builds that are not   *)
(* overridden read, from the oldest to the newest, "1", "2", ..., "M",     *)
(* M the number of such builds: no integer is skipped and none repeats.    *)
(***************************************************************************)
NotOverridden(idx) == Len(versions) - idx \notin OverrideKeys

C28_NumbersWithoutGap ==
    (QaMode /\ PageReturned /\ \A k \in OverrideKeys : k > 0)
        => /\ Len(html) = Len(bucketVersions)
           /\ \A idx \in 0..(Len(versions) - 1) :
                  /\ html[idx + 1].pos = idx
                  /\ NotOverridden(idx)
                         => html[idx + 1].versionLabel.text
                                = String(Cardinality(
                                      {j \in idx..(Len(versions) - 1) :
                                           NotOverridden(j)}))
                  /\ ~NotOverridden(idx)
                         => html[idx + 1].versionLabel.text
                                = qaSprintOverrides[Len(versions) - idx]

\* A finished page of ten builds under three overrides, two of them next
\* to each other: the newest build reads "7".
C28_Witness ==
    /\ QaMode /\ PageReturned
    /\ Len(html) = 10
    /\ OverrideKeys = {3, 4, 8}
    /\ html[1].versionLabel.text = <<"7">>
    /\ html[10].versionLabel.text = <<"1">>
    /\ html[1].sprintIndex = 10

(***************************************************************************)
(* src/unnamed/part_001, lines 1-242: the handler that lists the versions  *)
(* and the current objects of the bucket, and whose resolver shifts by the *)
(* number of override keys below the index, less one.  The head of its     *)
(* loop reads as that of part_000.                                         *)
(***************************************************************************)
\* resolveQaSprintLabel with the shift of src/lambda/index.ts: the number of
\* overrides, above the highest key only.
resolveQaSprintLabel_part001_AboveHighest(sprintIndex, overrides) ==
    IF MapHas(overrides, sprintIndex) THEN overrides[sprintIndex]
    ELSE IF MapSize(overrides) > 0 /\ sprintIndex > MaxOf(DOMAIN overrides)
         THEN String(sprintIndex - MapSize(overrides))
    ELSE String(sprintIndex)

resolveQaSprintLabel_part001(sprintIndex, overrides) ==
    IF MapHas(overrides, sprintIndex) THEN overrides[sprintIndex]
    ELSE LET overriddenBefore ==
                 Cardinality({k \in DOMAIN overrides : k < sprintIndex})
         IN  IF overriddenBefore > 0
             THEN String(sprintIndex - (overriddenBefore - 1))
             ELSE String(sprintIndex)

\* objectResp.Contents?.map(...) || []: Key and LastModified of each
\* object, VersionId undefined.
CurrentObjects(contents) ==
    [k \in 1..Len(contents) |->
        [f \in DOMAIN contents[k] \cap {"Key", "LastModified"} |-> contents[k][f]]]

\* [...versionedObjects, ...currentObjects.filter(o => no version has o.Key)]
MergeObjects(versionedObjects, currentObjects) ==
    versionedObjects
        \o SelectSeq(currentObjects,
               LAMBDA o : \A k \in 1..Len(versionedObjects) :
                              KeyOf(versionedObjects[k]) # KeyOf(o))

OtherKey == <<"builds", "other.zip">>

\* What ListObjectsV2 can answer: no object, an object the versions cover,
\* objects they do not cover.
ContentsAnswers ==
    { <<>>,
      <<[Key |-> AppKey, LastModified |-> 1, Size |-> 1]>>,
      <<[Key |-> OtherKey, LastModified |-> 2, Size |-> 1]>>,
      <<[Key |-> OtherKey, LastModified |-> 2, Size |-> 1],
        [Key |-> AppKey, LastModified |-> 1, Size |-> 1]>> }

Init_part001 ==
    /\ ENVIRONMENT = "qa"
    /\ BUCKET = "builds-bucket"
    /\ QA_SPRINT_OVERRIDES \in QaOverrideStrings
    /\ bucketVersions \in QaEnumerations
    /\ Locals0
    /\ prev = <<>>
    /\ bucketContents \in ContentsAnswers
    /\ pages = <<>>

Invoke_part001 ==
    /\ pc = "idle"
    /\ IF BUCKET = ""
       THEN /\ response' = [statusCode |-> 500, body |-> "BUCKET_NAME not set"]
            /\ pc' = "returned"
            /\ calls' = calls
       ELSE /\ response' = response
            /\ pc' = "list"
            /\ calls' = [calls EXCEPT !.list = @ + 1]
    /\ UNCHANGED <<env, variantLocals, versions, i, latestKey, latestVersionId,
                   qaSprintOverrides, commitMessage, html, skipped>>

\* ListObjectVersions resolves: versionedObjects (kept in versions until
\* the merge), then the ListObjectsV2 call.
ListReturns_part001 ==
    /\ pc = "list"
    /\ versions' = bucketVersions
    /\ pc' = "listObjects"
    /\ calls' = [calls EXCEPT !.list = @ + 1]
    /\ UNCHANGED <<env, variantLocals, i, latestKey, latestVersionId,
                   qaSprintOverrides, commitMessage, html, skipped, response>>

\* Either list call rejects: the handler's promise rejects.
ListFails_part001 ==
    /\ pc \in {"list", "listObjects"}
    /\ pc' = "thrown"
    /\ UNCHANGED <<env, variantLocals, versions, i, latestKey, latestVersionId,
                   qaSprintOverrides, commitMessage, html, skipped, response,
                   calls>>

\* ListObjectsV2 resolves: the merge, the empty page, or the sort, the
\* latest build, the overrides and the head of the first iteration.
ListObjectsReturns_part001 ==
    /\ pc = "listObjects"
    /\ LET merged == MergeObjects(versions, CurrentObjects(bucketContents)) IN
       IF Len(merged) = 0
       THEN /\ response' = [statusCode |-> 200, body |-> "No files found"]
            /\ pc' = "returned"
            /\ versions' = merged
            /\ UNCHANGED <<latestKey, latestVersionId, qaSprintOverrides, calls>>
       ELSE /\ versions' = SortVersions(merged)
            /\ latestKey' = KeyOf(versions'[1])
            /\ latestVersionId' = VersionIdOf(versions'[1])
            /\ qaSprintOverrides' = loadQaSprintOverrides(QA_SPRINT_OVERRIDES)
            /\ AwaitOfIteration_part000(calls, 0, versions')
            /\ response' = response
    /\ i' = 0
    /\ commitMessage' = <<>>
    /\ html' = <<>>
    /\ skipped' = <<>>
    /\ UNCHANGED <<env, variantLocals>>

\* The signing call resolves: the row, then the next iteration or the page.
SignReturns_part001 ==
    /\ pc = "signing"
    /\ LET sprintIndex == SprintIndexAt(Len(versions), i)
           versionId == VersionIdOf(versions[i + 1])
       IN  html' = Append(html,
               IF ENVIRONMENT = "qa"
               THEN VariantRow(i, sprintIndex, "Sprint: ",
                        resolveQaSprintLabel_part001(sprintIndex,
                                                     qaSprintOverrides),
                        commitMessage,
                        IF versionId = <<>> THEN Undefined ELSE versionId)
               ELSE VariantRow(i, sprintIndex, "Version: ",
                        slice(versionId, 10), commitMessage,
                        IF versionId = <<>> THEN Undefined ELSE versionId))
    /\ i' = i + 1
    /\ commitMessage' = <<>>
    /\ IF i + 1 < Len(versions)
       THEN /\ AwaitOfIteration_part000(calls, i + 1, versions)
            /\ response' = response
       ELSE /\ response' = [statusCode |-> 200, body |-> "page"]
            /\ pc' = "returned"
            /\ calls' = calls
    /\ UNCHANGED <<env, variantLocals, versions, latestKey, latestVersionId,
                   qaSprintOverrides, skipped>>

SignFails_part001 ==
    /\ pc = "signing"
    /\ pc' = "thrown"
    /\ UNCHANGED <<env, variantLocals, versions, i, latestKey, latestVersionId,
                   qaSprintOverrides, commitMessage, html, skipped, response,
                   calls>>

\* The QA deployment of part_001: the tagging call is never issued.
Next_part001 ==
    \/ Invoke_part001
    \/ ListReturns_part001
    \/ ListFails_part001
    \/ ListObjectsReturns_part001
    \/ SignReturns_part001
    \/ SignFails_part001

Spec_part001 == Init_part001 /\ [][Next_part001]_vars

(***************************************************************************)
(* C27: with the resolver of part_001 (lines 59-83), for every set of      *)
(* integer override keys the numeric labels of the raw indices that are    *)
(* not overridden grow strictly with the raw index (so no two are equal),  *)
(* and the QA page has a row for every build: none is skipped.             *)
(***************************************************************************)
NumericRows == {k \in 1..Len(html) : html[k].sprintIndex \notin OverrideKeys}

C27_LabelsStrictlyIncreasing ==
    QaMode
        => /\ \A k \in NumericRows : IsDecimal(html[k].versionLabel.text)
           /\ \A a, b \in NumericRows :
                  html[a].sprintIndex < html[b].sprintIndex
                      => Number(html[a].versionLabel.text).value
                             < Number(html[b].versionLabel.text).value
           /\ skipped = <<>>
           /\ \A k \in 1..Len(html) :
                  html[k].pos = k - 1 /\ html[k].sprintIndex = Len(versions) - k + 2
           /\ PageReturned
                  => /\ Len(html) = Len(versions)
                     /\ Len(versions)
                            = Len(bucketVersions)
                                + Cardinality(
                                      {k \in 1..Len(bucketContents) :
                                           \A j \in 1..Len(bucketVersions) :
                                               bucketVersions[j].Key
                                                   # bucketContents[k].Key})

\* A finished QA page under the overrides 2, 5 and 6 over seven versions and
\* a current object of another key: raw indices 7 and 8 read "5" and "6".
C27_Witness ==
    /\ QaMode /\ PageReturned
    /\ OverrideKeys = {2, 5, 6}
    /\ Len(bucketVersions) = 7 /\ Len(html) = 8
    /\ \E k \in NumericRows :
           html[k].sprintIndex = 7 /\ html[k].versionLabel.text = <<"5">>
    /\ \E k \in NumericRows :
           html[k].sprintIndex = 8 /\ html[k].versionLabel.text = <<"6">>

(***************************************************************************)
(* src/unnamed/part_001, lines 244-574: the handler that reads a sprint    *)
(* from the tags of a build (git-tag, tag, git_tag, ref) and numbers by    *)
(* position, with the 8A/8B split written in, only without such a tag.     *)
(***************************************************************************)
UpperCase ==
    <<"A", "B", "C", "D", "E", "F", "G", "H", "I", "J", "K", "L", "M",
      "N", "O", "P", "Q", "R", "S", "T", "U", "V", "W", "X", "Y", "Z">>

LowerCase ==
    <<"a", "b", "c", "d", "e", "f", "g", "h", "i", "j", "k", "l", "m",
      "n", "o", "p", "q", "r", "s", "t", "u", "v", "w", "x", "y", "z">>

toLowerCase(s) ==
    [k \in 1..Len(s) |->
        IF \E u \in 1..26 : UpperCase[u] = s[k]
        THEN LowerCase[CHOOSE u \in 1..26 : UpperCase[u] = s[k]]
        ELSE s[k]]

\* gitTag.match(/sprint([0-9]+[ab]?)/i): m[1] of the leftmost match (the
\* digits as far as they go, then an a or b of either case if one
\* follows), Null without a match.
matchSprint(s) ==
    LET starts == {p \in 1..(Len(s) - 6) :
                       /\ toLowerCase(SubSeq(s, p, p + 5))
                              = <<"s", "p", "r", "i", "n", "t">>
                       /\ IsDigit(s[p + 6])}
    IN  IF starts = {} THEN Null
        ELSE LET first == MinOf(starts) + 6
                 last == MaxOf({q \in first..Len(s) :
                                    \A r \in first..q : IsDigit(s[r])})
                 suffix == IF last < Len(s)
                              /\ toLowerCase(<<s[last + 1]>>) \in {<<"a">>, <<"b">>}
                           THEN 1 ELSE 0
             IN  SubSeq(s, first, last + suffix)

\* gitTag.length > 20 ? gitTag.slice(0, 20) + '...' : gitTag, with >= for >
trimmed_From20(tag) ==
    IF Len(tag) >= 20 THEN slice(tag, 20) \o <<".", ".", ".">> ELSE tag

\* const trimmed = gitTag.length > 20 ? gitTag.slice(0, 20) + '...' : gitTag
trimmed(tag) ==
    IF Len(tag) > 20 THEN slice(tag, 20) \o <<".", ".", ".">> ELSE tag

GitTagKeys == {"git-tag", "tag", "git_tag", "ref"}

\* tagSet.find(t => pred(t.Key))?.Value || '' : the value of the first tag
\* of the set whose key is one of keys, '' without one.
FindValue(tagSet, keys) ==
    LET at == {k \in 1..Len(tagSet) : tagSet[k].Key \in keys}
    IN  IF at = {} THEN <<>> ELSE tagSet[MinOf(at)].Value

\* tagsResp.TagSet || []
TagSetOf(tagsResp) ==
    IF "TagSet" \in DOMAIN tagsResp THEN tagsResp.TagSet ELSE <<>>

\* The fallback of QA: the position, with 8 and 9 read 8A and 8B and the
\* numbers from 10 on moved down by one.
PositionalLabel(sprintNumber) ==
    IF sprintNumber = 8 THEN <<"8", "A">>
    ELSE IF sprintNumber = 9 THEN <<"8", "B">>
    ELSE IF sprintNumber >= 10 THEN String(sprintNumber - 1)
    ELSE String(sprintNumber)

\* versionLabel without its "Sprint: " or "Version: "
LabelText(tag, sprintNumber, vid) ==
    IF tag # <<>>
    THEN IF matchSprint(tag) # Null THEN toLowerCase(matchSprint(tag))
         ELSE trimmed(tag)
    ELSE IF ENVIRONMENT = "qa" THEN PositionalLabel(sprintNumber)
    ELSE slice(vid, 10) \o <<".", ".", ".">>

\* A tag value of n characters.
RECURSIVE LongValue(_)
LongValue(n) == IF n = 0 THEN <<>> ELSE LongValue(n - 1) \o <<"x">>

\* What GetObjectTagging answers for a build.
TaggingAnswers ==
    { [VersionId |-> "v"],
      [TagSet |-> <<>>],
      [TagSet |-> <<[Key |-> "commit-message", Value |-> <<"f", "i", "x">>]>>],
      [TagSet |-> <<[Key |-> "git-tag",
                     Value |-> <<"S", "p", "r", "i", "n", "t", "8", "A">>]>>],
      [TagSet |-> <<[Key |-> "commit-message", Value |-> <<"f", "i", "x">>],
                    [Key |-> "ref",
                     Value |-> <<"r", "c", "-", "s", "p", "r", "i", "n", "t",
                                 "1", "2", "b", "c">>]>>],
      [TagSet |-> <<[Key |-> "tag", Value |-> <<"v", "1">>],
                    [Key |-> "git-tag",
                     Value |-> <<"s", "p", "r", "i", "n", "t", "8", "a">>]>>],
      [TagSet |-> <<[Key |-> "git-tag",
                     Value |-> <<"s", "p", "r", "i", "n", "t", "8", "a">>],
                    [Key |-> "tag", Value |-> <<"v", "1">>]>>],
      [TagSet |-> <<[Key |-> "git_tag", Value |-> <<>>]>>],
      [TagSet |-> <<[Key |-> "tag", Value |-> <<"s", "p", "r", "i", "n", "t">>]>>],
      [TagSet |-> <<[Key |-> "tag", Value |-> LongValue(20)]>>],
      [TagSet |-> <<[Key |-> "tag", Value |-> LongValue(21)]>>],
      [TagSet |-> <<[Key |-> "sprint",
                     Value |-> <<"s", "p", "r", "i", "n", "t", "9">>]>>] }

\* The versions of one object, newest first, the j-th of them with the tags
\* of answer t and the others without tags.  (Tagging is not part of what
\* ListObjectVersions answers: it is what GetObjectTagging answers for the
\* version.)
TaggedBuild(j, t) ==
    [Key |-> AppKey, VersionId |-> <<"v">> \o String(j), LastModified |-> j,
     Tagging |-> t]

TaggedEnumerations ==
    {<<>>} \cup
    UNION {{[k \in 1..n |-> TaggedBuild(n + 1 - k,
                                IF k = j THEN t ELSE [TagSet |-> <<>>])] :
               j \in 1..n, t \in TaggingAnswers} : n \in 1..MaxQaBuilds}

Init_annotated ==
    /\ ENVIRONMENT \in {"dev", "qa"}
    /\ BUCKET \in {"", "builds-bucket"}
    /\ QA_SPRINT_OVERRIDES = Undefined
    /\ bucketVersions \in TaggedEnumerations
    /\ Locals0
    /\ prev = <<>>
    /\ bucketContents = <<>>
    /\ pages = <<>>

Invoke_annotated ==
    /\ pc = "idle"
    /\ IF BUCKET = ""
       THEN /\ response' = [statusCode |-> 500,
                            body |-> "Configuration Error: BUCKET_NAME not set"]
            /\ pc' = "returned"
            /\ calls' = calls
       ELSE /\ response' = response
            /\ pc' = "list"
            /\ calls' = [calls EXCEPT !.list = @ + 1]
    /\ UNCHANGED <<env, variantLocals, versions, i, latestKey, latestVersionId,
                   qaSprintOverrides, commitMessage, html, skipped>>

\* The list call resolves: the empty page, or the sort, the latest build
\* and the tagging call of the first iteration.
ListReturns_annotated ==
    /\ pc = "list"
    /\ IF Len(bucketVersions) = 0
       THEN /\ response' = [statusCode |-> 200, body |-> "No files found"]
            /\ pc' = "returned"
            /\ UNCHANGED <<versions, latestKey, latestVersionId, calls>>
       ELSE /\ versions' = SortVersions(bucketVersions)
            /\ latestKey' = KeyOf(versions'[1])
            /\ latestVersionId' = VersionIdOf(versions'[1])
            /\ pc' = "tagging"
            /\ calls' = [calls EXCEPT !.tagging = @ + 1]
            /\ response' = response
    /\ i' = 0
    /\ commitMessage' = <<>>
    /\ gitTag' = <<>>
    /\ html' = <<>>
    /\ skipped' = <<>>
    /\ UNCHANGED <<env, qaSprintOverrides, KeyMarker, VersionIdMarker, requests>>

ListFails_annotated ==
    /\ pc = "list"
    /\ pc' = "thrown"
    /\ UNCHANGED <<env, variantLocals, versions, i, latestKey, latestVersionId,
                   qaSprintOverrides, commitMessage, html, skipped, response,
                   calls>>

\* The tagging call resolves: commitMsg and gitTag, then the signing call.
TaggingReturns_annotated ==
    /\ pc = "tagging"
    /\ LET tagSet == TagSetOf(versions[i + 1].Tagging) IN
       /\ commitMessage' = FindValue(tagSet, {"commit-message"})
       /\ gitTag' = FindValue(tagSet, GitTagKeys)
    /\ pc' = "signing"
    /\ calls' = [calls EXCEPT !.sign = @ + 1]
    /\ UNCHANGED <<env, versions, i, latestKey, latestVersionId,
                   qaSprintOverrides, html, skipped, response,
                   KeyMarker, VersionIdMarker, requests>>

\* The tagging call rejects: logged, commitMsg and gitTag stay ''.
TaggingFails_annotated ==
    /\ pc = "tagging"
    /\ commitMessage' = <<>>
    /\ gitTag' = <<>>
    /\ pc' = "signing"
    /\ calls' = [calls EXCEPT !.sign = @ + 1]
    /\ UNCHANGED <<env, versions, i, latestKey, latestVersionId,
                   qaSprintOverrides, html, skipped, response,
                   KeyMarker, VersionIdMarker, requests>>

\* The signing call resolves: the label, the row, then the tagging call of
\* the next iteration or the page.
SignReturns_annotated ==
    /\ pc = "signing"
    /\ LET sprintNumber == SprintIndexAt(Len(versions), i)
           vid == VersionIdOf(versions[i + 1])
       IN  html' = Append(html,
               VariantRow(i, sprintNumber,
                   IF ENVIRONMENT = "qa" THEN "Sprint: " ELSE "Version: ",
                   LabelText(gitTag, sprintNumber, vid), commitMessage, vid))
    /\ i' = i + 1
    /\ commitMessage' = <<>>
    /\ gitTag' = <<>>
    /\ IF i + 1 < Len(versions)
       THEN /\ pc' = "tagging"
            /\ calls' = [calls EXCEPT !.tagging = @ + 1]
            /\ response' = response
       ELSE /\ response' = [statusCode |-> 200, body |-> "page"]
            /\ pc' = "returned"
            /\ calls' = calls
    /\ UNCHANGED <<env, versions, latestKey, latestVersionId,
                   qaSprintOverrides, skipped,
                   KeyMarker, VersionIdMarker, requests>>

SignFails_annotated ==
    /\ pc = "signing"
    /\ pc' = "thrown"
    /\ UNCHANGED <<env, variantLocals, versions, i, latestKey, latestVersionId,
                   qaSprintOverrides, commitMessage, html, skipped, response,
                   calls>>

Next_annotated ==
    \/ Invoke_annotated
    \/ ListReturns_annotated
    \/ ListFails_annotated
    \/ TaggingReturns_annotated
    \/ TaggingFails_annotated
    \/ SignReturns_annotated
    \/ SignFails_annotated

Spec_annotated == Init_annotated /\ [][Next_annotated]_vars

(***************************************************************************)
(* C21: in the handler of part_001, lines 296-574, a build that carries a  *)
(* tag named git-tag, tag, git_tag or ref whose value matches              *)
(* sprint<digits>[a|b] (in either case) is labelled with the captured      *)
(* sprint text in lower case, whatever its position, N and the 8A/8B       *)
(* renumbering; the position gives the label only of a build without such  *)
(* a tag or whose tag fetch failed.                                        *)
(***************************************************************************)
\* The tags of the build of the current iteration that name a sprint.
SprintTags ==
    LET tagSet == TagSetOf(versions[i + 1].Tagging)
    IN  {k \in 1..Len(tagSet) :
             tagSet[k].Key \in GitTagKeys /\ matchSprint(tagSet[k].Value) # Null}

C21_Step ==
    /\ (TaggingReturns_annotated /\ SprintTags # {})
           => \E k \in SprintTags :
                  gitTag' = TagSetOf(versions[i + 1].Tagging)[k].Value
    /\ (SignReturns_annotated /\ gitTag # <<>> /\ matchSprint(gitTag) # Null)
           => html'[Len(html')].versionLabel.text
                  = toLowerCase(matchSprint(gitTag))

C21_SprintTagGivesLabel == [][C21_Step]_vars

(***************************************************************************)
(* C22: in the same handler, a build whose tag value is not empty and does *)
(* not match the sprint pattern is labelled with the tag value itself when *)
(* that has at most 20 characters, and else with its first 20 characters   *)
(* and "..."; the handler does not fail and the position is not used for   *)
(* that build.                                                             *)
(***************************************************************************)
FirstTwenty(s) == [k \in 1..(IF Len(s) < 20 THEN Len(s) ELSE 20) |-> s[k]]

C22_Step ==
    /\ TaggingReturns_annotated
           => /\ pc' = "signing"
              /\ \/ gitTag' = <<>>
                 \/ \E k \in 1..Len(TagSetOf(versions[i + 1].Tagging)) :
                        LET t == TagSetOf(versions[i + 1].Tagging)[k] IN
                        t.Key \in GitTagKeys /\ gitTag' = t.Value
    /\ (SignReturns_annotated /\ gitTag # <<>> /\ matchSprint(gitTag) = Null)
           => /\ Len(html') = Len(html) + 1
              /\ pc' \in {"tagging", "returned"}
              /\ html'[Len(html')].pos = i
              /\ html'[Len(html')].versionLabel.text
                     = IF Len(gitTag) <= 20 THEN gitTag
                       ELSE FirstTwenty(gitTag) \o <<".", ".", ".">>

C22_UnparsedTagShownTrimmed == [][C22_Step]_vars

\* A finished QA page of nine builds whose oldest (raw index 2) shows the
\* first twenty of the 21 characters of its tag.
C22_Witness ==
    /\ QaMode /\ PageReturned /\ Len(html) = 9
    /\ html[9].versionLabel.text = LongValue(20) \o <<".", ".", ".">>
    /\ html[2].versionLabel.text = <<"8", "B">>

(***************************************************************************)
(* src/unnamed/part_002, lines 184-428: the handler whose raw index is     *)
(* N - i and whose resolver shifts by the number of overrides above the    *)
(* override range and leaves the numbers inside the range as they are.     *)
(***************************************************************************)
\* The return statement resolveQaSprintLabel leaves by.
ReturnOf_part002(sprintIndex, overrides) ==
    IF MapHas(overrides, sprintIndex) THEN "direct override"
    ELSE IF MapSize(overrides) = 0 THEN "no overrides"
    ELSE IF sprintIndex < MinOf(DOMAIN overrides) THEN "before override range"
    ELSE IF sprintIndex > MaxOf(DOMAIN overrides) THEN "after override range"
    ELSE "fallback"

resolveQaSprintLabel_part002(sprintIndex, overrides) ==
    LET return == ReturnOf_part002(sprintIndex, overrides) IN
    IF return = "direct override" THEN overrides[sprintIndex]
    ELSE IF return = "after override range"
         THEN String(sprintIndex - MapSize(overrides))
    ELSE String(sprintIndex)

Invoke_part002 ==
    /\ pc = "idle"
    /\ IF BUCKET = ""
       THEN /\ response' = [statusCode |-> 500, body |-> "BUCKET_NAME not set"]
            /\ pc' = "returned"
            /\ calls' = calls
       ELSE /\ response' = response
            /\ pc' = "list"
            /\ calls' = [calls EXCEPT !.list = @ + 1]
    /\ UNCHANGED <<env, variantLocals, versions, i, latestKey, latestVersionId,
                   qaSprintOverrides, commitMessage, html, skipped>>

\* The head of an iteration reads as that of part_000 (tagging in DEV for a
\* build with a VersionId).
ListReturns_part002 ==
    /\ pc = "list"
    /\ IF Len(bucketVersions) = 0
       THEN /\ response' = [statusCode |-> 200, body |-> "No files found"]
            /\ pc' = "returned"
            /\ UNCHANGED <<versions, latestKey, latestVersionId,
                           qaSprintOverrides, calls>>
       ELSE /\ versions' = SortVersions(bucketVersions)
            /\ latestKey' = KeyOf(versions'[1])
            /\ latestVersionId' = VersionIdOf(versions'[1])
            /\ qaSprintOverrides' = loadQaSprintOverrides(QA_SPRINT_OVERRIDES)
            /\ AwaitOfIteration_part000(calls, 0, versions')
            /\ response' = response
    /\ i' = 0
    /\ commitMessage' = <<>>
    /\ html' = <<>>
    /\ skipped' = <<>>
    /\ UNCHANGED <<env, variantLocals>>

ListFails_part002 ==
    /\ pc = "list"
    /\ pc' = "thrown"
    /\ UNCHANGED <<env, variantLocals, versions, i, latestKey, latestVersionId,
                   qaSprintOverrides, commitMessage, html, skipped, response,
                   calls>>

SignReturns_part002 ==
    /\ pc = "signing"
    /\ LET sprintIndex == SprintIndexAt_part000(Len(versions), i)
           vid == VersionIdOf(versions[i + 1])
       IN  html' = Append(html,
               IF ENVIRONMENT = "qa"
               THEN VariantRow(i, sprintIndex, "Sprint: ",
                        resolveQaSprintLabel_part002(sprintIndex,
                                                     qaSprintOverrides),
                        commitMessage, vid)
               ELSE VariantRow(i, sprintIndex, "Version: ",
                        slice(vid, 10), commitMessage, vid))
    /\ i' = i + 1
    /\ commitMessage' = <<>>
    /\ IF i + 1 < Len(versions)
       THEN /\ AwaitOfIteration_part000(calls, i + 1, versions)
            /\ response' = response
       ELSE /\ response' = [statusCode |-> 200, body |-> "page"]
            /\ pc' = "returned"
            /\ calls' = calls
    /\ UNCHANGED <<env, variantLocals, versions, latestKey, latestVersionId,
                   qaSprintOverrides, skipped>>

SignFails_part002 ==
    /\ pc = "signing"
    /\ pc' = "thrown"
    /\ UNCHANGED <<env, variantLocals, versions, i, latestKey, latestVersionId,
                   qaSprintOverrides, commitMessage, html, skipped, response,
                   calls>>

\* The QA deployment of this handler: the tagging call is never issued.
Next_part002 ==
    \/ Invoke_part002
    \/ ListReturns_part002
    \/ ListFails_part002
    \/ SignReturns_part002
    \/ SignFails_part002

Spec_part002 == InitQa /\ [][Next_part002]_vars

(***************************************************************************)
(* C25: in the resolver of part_002 (lines 253-283), for every sprint      *)
(* index and override map the call returns from the direct-override, the   *)
(* empty-map, the before-range or the after-range branch: the last return, *)
(* marked "should never hit", is never reached.                            *)
(***************************************************************************)
C25_FallbackNeverReached ==
    QaMode
        => \A k \in 1..Len(html) :
               ReturnOf_part002(html[k].sprintIndex, qaSprintOverrides)
                   \in {"direct override", "no overrides",
                        "before override range", "after override range"}

(***************************************************************************)
(* The two handlers without the `versions.length === 0` test:              *)
(* src/unnamed/part_002, lines 1-182 (override logic written into the      *)
(* loop) and src/eslint.config.cjs, lines 61-203 (direct overrides only,   *)
(* no tagging call).  Either may be the deployed one; the awaits of the    *)
(* second are named apart.                                                 *)
(***************************************************************************)
\* part_002, lines 121-131: sprintLabel
SprintLabel_part002a(sprintIndex, overrides, vid) ==
    IF ENVIRONMENT = "qa"
    THEN IF MapHas(overrides, sprintIndex) THEN overrides[sprintIndex]
         ELSE IF MapSize(overrides) > 0 /\ sprintIndex > MinOf(DOMAIN overrides)
              THEN String(sprintIndex - (MapSize(overrides) - 1))
         ELSE String(sprintIndex)
    ELSE slice(vid, 10)

Invoke_part002a ==
    /\ pc = "idle"
    /\ IF BUCKET = ""
       THEN /\ response' = [statusCode |-> 500, body |-> "BUCKET_NAME not set"]
            /\ pc' = "returned"
            /\ calls' = calls
       ELSE /\ response' = response
            /\ pc' = "list"
            /\ calls' = [calls EXCEPT !.list = @ + 1]
    /\ UNCHANGED <<env, variantLocals, versions, i, latestKey, latestVersionId,
                   qaSprintOverrides, commitMessage, html, skipped>>

\* The list call resolves: the sort, latest?.Key ?? '', the overrides, the
\* page header, and the first iteration if there is a build; the page of the
\* header and the footer if there is none.
ListReturns_part002a ==
    /\ pc = "list"
    /\ versions' = SortVersions(bucketVersions)
    /\ latestKey' = IF Len(versions') > 0 THEN KeyOf(versions'[1]) ELSE <<"">>
    /\ latestVersionId' =
           IF Len(versions') > 0 THEN VersionIdOf(versions'[1]) ELSE <<>>
    /\ qaSprintOverrides' = loadQaSprintOverrides(QA_SPRINT_OVERRIDES)
    /\ IF Len(versions') > 0
       THEN /\ AwaitOfIteration_part000(calls, 0, versions')
            /\ response' = response
       ELSE /\ response' = [statusCode |-> 200, body |-> "page"]
            /\ pc' = "returned"
            /\ calls' = calls
    /\ i' = 0
    /\ commitMessage' = <<>>
    /\ html' = <<>>
    /\ skipped' = <<>>
    /\ UNCHANGED <<env, variantLocals>>

ListFails_part002a ==
    /\ pc = "list"
    /\ pc' = "thrown"
    /\ UNCHANGED <<env, variantLocals, versions, i, latestKey, latestVersionId,
                   qaSprintOverrides, commitMessage, html, skipped, response,
                   calls>>

TaggingReturns_part002a ==
    /\ pc = "tagging"
    /\ \E value \in TagValues :
           commitMessage' = IF Falsy(value) THEN <<>> ELSE value
    /\ pc' = "signing"
    /\ calls' = [calls EXCEPT !.sign = @ + 1]
    /\ UNCHANGED <<env, variantLocals, versions, i, latestKey, latestVersionId,
                   qaSprintOverrides, html, skipped, response>>

\* The tagging call rejects: logged, commitMsg stays ''.
TaggingFails_part002a ==
    /\ pc = "tagging"
    /\ commitMessage' = <<>>
    /\ pc' = "signing"
    /\ calls' = [calls EXCEPT !.sign = @ + 1]
    /\ UNCHANGED <<env, variantLocals, versions, i, latestKey, latestVersionId,
                   qaSprintOverrides, html, skipped, response>>

SignReturns_part002a ==
    /\ pc = "signing"
    /\ LET sprintIndex == SprintIndexAt(Len(versions), i)
           vid == VersionIdOf(versions[i + 1])
       IN  html' = Append(html,
               VariantRow(i, sprintIndex,
                   IF ENVIRONMENT = "qa" THEN "Sprint: " ELSE "Version: ",
                   SprintLabel_part002a(sprintIndex, qaSprintOverrides, vid),
                   commitMessage, vid))
    /\ i' = i + 1
    /\ commitMessage' = <<>>
    /\ IF i + 1 < Len(versions)
       THEN /\ AwaitOfIteration_part000(calls, i + 1, versions)
            /\ response' = response
       ELSE /\ response' = [statusCode |-> 200, body |-> "page"]
            /\ pc' = "returned"
            /\ calls' = calls
    /\ UNCHANGED <<env, variantLocals, versions, latestKey, latestVersionId,
                   qaSprintOverrides, skipped>>

SignFails_part002a ==
    /\ pc = "signing"
    /\ pc' = "thrown"
    /\ UNCHANGED <<env, variantLocals, versions, i, latestKey, latestVersionId,
                   qaSprintOverrides, commitMessage, html, skipped, response,
                   calls>>

\* src/eslint.config.cjs, lines 117-125
resolveQaSprintLabel_eslint(baseSprint, overrides) ==
    IF MapHas(overrides, baseSprint) THEN overrides[baseSprint]
    ELSE String(baseSprint)

Invoke_eslint ==
    /\ pc = "idle"
    /\ IF BUCKET = ""
       THEN /\ response' = [statusCode |-> 500, body |-> "BUCKET_NAME not set"]
            /\ pc' = "returned"
            /\ calls' = calls
       ELSE /\ response' = response
            /\ pc' = "eslint.list"
            /\ calls' = [calls EXCEPT !.list = @ + 1]
    /\ UNCHANGED <<env, variantLocals, versions, i, latestKey, latestVersionId,
                   qaSprintOverrides, commitMessage, html, skipped>>

\* The list call resolves: the sort, latest?.Key and latest?.VersionId
\* (undefined without a build or without the field), the overrides, and the
\* signing call of the first iteration or the page around no row.
ListReturns_eslint ==
    /\ pc = "eslint.list"
    /\ versions' = SortVersions(bucketVersions)
    /\ latestKey' = IF Len(versions') > 0 /\ "Key" \in DOMAIN versions'[1]
                    THEN versions'[1].Key ELSE Undefined
    /\ latestVersionId' =
           IF Len(versions') > 0 /\ "VersionId" \in DOMAIN versions'[1]
           THEN versions'[1].VersionId ELSE Undefined
    /\ qaSprintOverrides' = loadQaSprintOverrides(QA_SPRINT_OVERRIDES)
    /\ IF Len(versions') > 0
       THEN /\ pc' = "eslint.signing"
            /\ calls' = [calls EXCEPT !.sign = @ + 1]
            /\ response' = response
       ELSE /\ response' = [statusCode |-> 200, body |-> "page"]
            /\ pc' = "returned"
            /\ calls' = calls
    /\ i' = 0
    /\ commitMessage' = <<>>
    /\ html' = <<>>
    /\ skipped' = <<>>
    /\ UNCHANGED <<env, variantLocals>>

ListFails_eslint ==
    /\ pc = "eslint.list"
    /\ pc' = "thrown"
    /\ UNCHANGED <<env, variantLocals, versions, i, latestKey, latestVersionId,
                   qaSprintOverrides, commitMessage, html, skipped, response,
                   calls>>

\* The signing call resolves: the row (its label after "Sprint: " in either
\* mode), then the next signing call or the page.
SignReturns_eslint ==
    /\ pc = "eslint.signing"
    /\ LET baseSprint == SprintIndexAt(Len(versions), i)
           vid == VersionIdOf(versions[i + 1])
       IN  html' = Append(html,
               VariantRow(i, baseSprint, "Sprint: ",
                   IF ENVIRONMENT = "qa"
                   THEN resolveQaSprintLabel_eslint(baseSprint,
                                                    qaSprintOverrides)
                   ELSE slice(vid, 10),
                   <<>>, vid))
    /\ i' = i + 1
    /\ IF i + 1 < Len(versions)
       THEN /\ pc' = "eslint.signing"
            /\ calls' = [calls EXCEPT !.sign = @ + 1]
            /\ response' = response
       ELSE /\ response' = [statusCode |-> 200, body |-> "page"]
            /\ pc' = "returned"
            /\ calls' = calls
    /\ UNCHANGED <<env, variantLocals, versions, latestKey, latestVersionId,
                   qaSprintOverrides, commitMessage, skipped>>

SignFails_eslint ==
    /\ pc = "eslint.signing"
    /\ pc' = "thrown"
    /\ UNCHANGED <<env, variantLocals, versions, i, latestKey, latestVersionId,
                   qaSprintOverrides, commitMessage, html, skipped, response,
                   calls>>

Next_unguarded ==
    \/ Invoke_part002a
    \/ ListReturns_part002a
    \/ ListFails_part002a
    \/ TaggingReturns_part002a
    \/ TaggingFails_part002a
    \/ SignReturns_part002a
    \/ SignFails_part002a
    \/ Invoke_eslint
    \/ ListReturns_eslint
    \/ ListFails_eslint
    \/ SignReturns_eslint
    \/ SignFails_eslint

Spec_unguarded == Init /\ [][Next_unguarded]_vars

(***************************************************************************)
(* C26: when the enumerator returns zero builds, the handlers of part_002  *)
(* (lines 57-182) and of eslint.config.cjs (lines 129-203) return the      *)
(* nothing-found output, not a page of a header and no rows, and do not    *)
(* fail.                                                                   *)
(***************************************************************************)
C26_EmptyEnumerationNothingFound ==
    (Len(bucketVersions) = 0 /\ calls.list > 0 /\ pc \notin {"list", "eslint.list"})
        => /\ pc = "returned" \/ (pc = "thrown" /\ versions = <<>> /\ i = 0)
           /\ pc = "returned"
                  => response = [statusCode |-> 200, body |-> "No files found"]

(***************************************************************************)
(* src/unnamed/part_003: the handler of a fixed bucket that lists the      *)
(* versions page by page (do ... while (KeyMarker && VersionIdMarker)),    *)
(* then sorts and renders them with a label cut from the VersionId.        *)
(***************************************************************************)
\* Longest sequence of pages the enumerator answers.
MaxPages == 3

\* The markers after a page, with the VersionIdMarker never taken over.
MarkersAfter_KeyOnly(resp) ==
    [KeyMarker |-> IF resp.IsTruncated THEN resp.NextKeyMarker ELSE Undefined,
     VersionIdMarker |-> Undefined]

\* KeyMarker = resp.IsTruncated ? resp.NextKeyMarker : undefined, and the
\* same for VersionIdMarker.  (An absent field of resp is read undefined.)
MarkersAfter(resp) ==
    [KeyMarker |-> IF resp.IsTruncated THEN resp.NextKeyMarker ELSE Undefined,
     VersionIdMarker |->
         IF resp.IsTruncated THEN resp.NextVersionIdMarker ELSE Undefined]

\* if (resp.Versions) versions.push(...resp.Versions)
PushVersions(vs, resp) ==
    IF "Versions" \in DOMAIN resp THEN vs \o resp.Versions ELSE vs

\* vid && vid.length > 13 ? vid.slice(0, 10) + '...' : vid || ''
shortVid(vid) ==
    IF vid # <<>> /\ Len(vid) > 13 THEN slice(vid, 10) \o <<".", ".", ".">>
    ELSE vid

\* What a page says of the rest of the listing: the end, more with both
\* markers, more with a marker absent or empty.
Truncations ==
    { [IsTruncated |-> FALSE, NextKeyMarker |-> Undefined,
       NextVersionIdMarker |-> Undefined],
      [IsTruncated |-> TRUE, NextKeyMarker |-> <<"k", "1">>,
       NextVersionIdMarker |-> <<"v", "1">>],
      [IsTruncated |-> TRUE, NextKeyMarker |-> <<"k", "2">>,
       NextVersionIdMarker |-> <<"v", "2">>],
      [IsTruncated |-> TRUE, NextKeyMarker |-> <<"k", "1">>,
       NextVersionIdMarker |-> Undefined],
      [IsTruncated |-> TRUE, NextKeyMarker |-> <<>>,
       NextVersionIdMarker |-> <<"v", "1">>] }

PageVersions == {<<QaBuild(1)>>, <<QaBuild(3), QaBuild(2)>>}

PageAnswers ==
    Truncations
        \cup {[IsTruncated |-> t.IsTruncated, NextKeyMarker |-> t.NextKeyMarker,
               NextVersionIdMarker |-> t.NextVersionIdMarker, Versions |-> vs] :
                 t \in Truncations, vs \in PageVersions}

\* while (KeyMarker && VersionIdMarker)
AsksForMore(markers) ==
    ~Falsy(markers.KeyMarker) /\ ~Falsy(markers.VersionIdMarker)

\* The sequences of pages that end the loop with their last page or before.
PageSequences ==
    UNION {{ps \in [1..n -> PageAnswers] : ~AsksForMore(MarkersAfter(ps[n]))} :
              n \in 1..MaxPages}

Init_part003 ==
    /\ ENVIRONMENT = "dev"
    /\ BUCKET = "dev-aditya-280595"
    /\ QA_SPRINT_OVERRIDES = Undefined
    /\ bucketVersions = <<>>
    /\ Locals0
    /\ prev = <<>>
    /\ bucketContents = <<>>
    /\ pages \in PageSequences

\* handler(), to the first `await s3.send(new ListObjectVersionsCommand(...))`
Invoke_part003 ==
    /\ pc = "idle"
    /\ versions' = <<>>
    /\ requests' = <<[KeyMarker |-> KeyMarker,
                      VersionIdMarker |-> VersionIdMarker]>>
    /\ calls' = [calls EXCEPT !.list = @ + 1]
    /\ pc' = "list"
    /\ UNCHANGED <<env, gitTag, KeyMarker, VersionIdMarker, i, latestKey,
                   latestVersionId, qaSprintOverrides, commitMessage, html,
                   skipped, response>>

\* A list call resolves with the next page: the versions pushed, the
\* markers set, then the next list call; or, the loop left, the empty
\* page, or the sort, the latest build and the first signing call.
PageReturns_part003 ==
    /\ pc = "list"
    /\ LET resp == pages[Len(requests)]
           all == PushVersions(versions, resp)
           markers == MarkersAfter(resp)
       IN  /\ KeyMarker' = markers.KeyMarker
           /\ VersionIdMarker' = markers.VersionIdMarker
           /\ IF AsksForMore(markers)
              THEN /\ versions' = all
                   /\ requests' = Append(requests, markers)
                   /\ calls' = [calls EXCEPT !.list = @ + 1]
                   /\ pc' = "list"
                   /\ UNCHANGED <<latestKey, latestVersionId, response>>
              ELSE /\ requests' = requests
                   /\ IF Len(all) = 0
                      THEN /\ versions' = all
                           /\ response' = [statusCode |-> 200,
                                           body |-> "No files found"]
                           /\ pc' = "returned"
                           /\ UNCHANGED <<latestKey, latestVersionId, calls>>
                      ELSE /\ versions' = SortVersions(all)
                           /\ latestKey' = IF "Key" \in DOMAIN versions'[1]
                                           THEN versions'[1].Key ELSE Undefined
                           /\ latestVersionId' =
                                  IF "VersionId" \in DOMAIN versions'[1]
                                  THEN versions'[1].VersionId ELSE Undefined
                           /\ pc' = "signing"
                           /\ calls' = [calls EXCEPT !.sign = @ + 1]
                           /\ response' = response
    /\ i' = 0
    /\ html' = <<>>
    /\ UNCHANGED <<env, gitTag, qaSprintOverrides, commitMessage, skipped>>

\* A list call rejects: the handler's promise rejects.
ListFails_part003 ==
    /\ pc = "list"
    /\ pc' = "thrown"
    /\ UNCHANGED <<env, variantLocals, versions, i, latestKey, latestVersionId,
                   qaSprintOverrides, commitMessage, html, skipped, response,
                   calls>>

\* The signing call resolves: the row (the whole key for its name), then
\* the next signing call or the page.
SignReturns_part003 ==
    /\ pc = "signing"
    /\ LET vid == VersionIdOf(versions[i + 1])
           row == VariantRow(i, SprintIndexAt(Len(versions), i), "Version: ",
                             shortVid(vid), <<>>, vid)
       IN  html' = Append(html, [row EXCEPT !.fileName = KeyOf(versions[i + 1])])
    /\ i' = i + 1
    /\ IF i + 1 < Len(versions)
       THEN /\ pc' = "signing"
            /\ calls' = [calls EXCEPT !.sign = @ + 1]
            /\ response' = response
       ELSE /\ response' = [statusCode |-> 200, body |-> "page"]
            /\ pc' = "returned"
            /\ calls' = calls
    /\ UNCHANGED <<env, variantLocals, versions, latestKey, latestVersionId,
                   qaSprintOverrides, commitMessage, skipped>>

SignFails_part003 ==
    /\ pc = "signing"
    /\ pc' = "thrown"
    /\ UNCHANGED <<env, variantLocals, versions, i, latestKey, latestVersionId,
                   qaSprintOverrides, commitMessage, html, skipped, response,
                   calls>>

Next_part003 ==
    \/ Invoke_part003
    \/ PageReturns_part003
    \/ ListFails_part003
    \/ SignReturns_part003
    \/ SignFails_part003

Spec_part003 == Init_part003 /\ [][Next_part003]_vars

\* A page carries a marker when the field is there and is not empty.
Carries(m) == m # Undefined /\ m # <<>>

\* Every page but the last is truncated and carries both markers, and the
\* last page is the first that is not truncated.
WellFormedPages ==
    /\ Len(pages) > 0
    /\ \A k \in 1..(Len(pages) - 1) :
           /\ pages[k].IsTruncated
           /\ Carries(pages[k].NextKeyMarker)
           /\ Carries(pages[k].NextVersionIdMarker)
    /\ ~pages[Len(pages)].IsTruncated

\* The Versions of the first n pages, one after the other.
RECURSIVE VersionsOfPages(_, _)
VersionsOfPages(ps, n) ==
    IF n = 0 THEN <<>>
    ELSE VersionsOfPages(ps, n - 1)
             \o (IF "Versions" \in DOMAIN ps[n] THEN ps[n].Versions ELSE <<>>)

\* While the loop runs: one request per page so far, the first without
\* markers and each later one with the markers of the page before it, and
\* versions the pages answered so far, in their order.
C29_InLoop ==
    /\ calls.list = Len(requests)
    /\ Len(requests) <= Len(pages)
    /\ \A k \in 1..Len(requests) :
           requests[k] =
               IF k = 1
               THEN [KeyMarker |-> Undefined, VersionIdMarker |-> Undefined]
               ELSE [KeyMarker |-> pages[k - 1].NextKeyMarker,
                     VersionIdMarker |-> pages[k - 1].NextVersionIdMarker]
    /\ pc = "list" => versions = VersionsOfPages(pages, Len(requests) - 1)
    /\ pc \in {"signing", "returned"} => Len(requests) = Len(pages)

\* A page arrives: the loop goes on exactly when the page is not the last,
\* and the last page leaves versions with the Versions of all pages in
\* their order (which the statement after the loop sorts, or reports as
\* no files).
C29_PageArrives ==
    PageReturns_part003 =>
        IF Len(requests) < Len(pages)
        THEN /\ pc' = "list"
             /\ Len(requests') = Len(requests) + 1
             /\ versions' = VersionsOfPages(pages, Len(requests))
        ELSE /\ pc' \in {"signing", "returned"}
             /\ requests' = requests
             /\ versions \o (IF "Versions" \in DOMAIN pages[Len(pages)]
                             THEN pages[Len(pages)].Versions ELSE <<>>)
                    = VersionsOfPages(pages, Len(pages))
             /\ versions' \in {VersionsOfPages(pages, Len(pages)),
                               SortVersions(VersionsOfPages(pages, Len(pages)))}

\* C29: over a sequence of pages of which each truncated one carries both
\* markers and the last is the first non-truncated one, the listing loop of
\* src/unnamed/part_003 issues one request per page, passes each page's
\* markers to the next request, ends after the non-truncated page and
\* leaves versions the concatenation of the pages' Versions in the order
\* of their arrival.
C29_LoopReadsEveryPage ==
    /\ [](WellFormedPages => C29_InLoop)
    /\ [][WellFormedPages => C29_PageArrives]_vars

\* Three pages read with three requests, the second and third of which
\* carry the markers of the first and second page.
C29_Witness ==
    /\ WellFormedPages
    /\ Len(pages) = 3
    /\ pc = "returned"
    /\ Len(requests) = 3
    /\ requests[2].KeyMarker = <<"k", "1">>
    /\ requests[3] = [KeyMarker |-> <<"k", "2">>,
                      VersionIdMarker |-> <<"v", "2">>]
    /\ Len(versions) = 5
    /\ Len(html) = 5

====
